---- MODULE Spec2Model ----
(***************************************************************************)
(* A model of node-sie-swilib: the SWILIB patch parser (parseSwilibPatch), *)
(* the SDK catalog (Sdklib) and the consistency analyzer (analyzeSwilib).  *)
(*                                                                         *)
(* JavaScript values are modelled as follows.                              *)
(*  - `undefined` and array holes are the record Undefined; a present      *)
(*    value x of an optional field is Some(x).                             *)
(*  - a sparse array is a sequence whose element k+1 is slot k; its length *)
(*    is the JavaScript length (last index + 1).                           *)
(*  - an unsigned 32-bit number is a record [hi, lo] of its two 16-bit     *)
(*    halves (the number is hi * 65536 + lo).                              *)
(*  - an error message is a record of the message template (kind) and the  *)
(*    values interpolated into it.                                         *)
(***************************************************************************)
EXTENDS Integers, Sequences, FiniteSets, TLC

VARIABLES
    config,     \* SwilibConfig.functions: pairs, aliases, reserved (shared object)
    swilib,     \* Swilib: the patch table handed to analyzeSwilib
    sdklib,     \* Sdklib: the catalog table handed to analyzeSwilib
    call,       \* the activation of analyzeSwilib: its locals and its result
    calls,      \* analyses run side by side on one config: caller -> tables, locals
    parser,     \* the activation of parseSwilibPatch: offset, entries, end
    vkp,        \* the text serializeSwilib returned and the parser reading it back
    blib,       \* the activation of getSwiBlib and the Buffer it returns
    builder     \* the activation of parseLibraryFromSDK: entries, prevDoxygen

vars == <<config, swilib, sdklib, call, calls, parser, vkp, blib, builder>>

----------------------------------------------------------------------------
(* Bounds of the model *)

\* the highest table length considered (slots are 0 .. MaxSlots - 1)
MaxSlots == 3

Slots == 0 .. (MaxSlots - 1)

----------------------------------------------------------------------------
(* JavaScript values *)

Undefined == [def |-> FALSE]

Some(x) == [def |-> TRUE, v |-> x]

Range(s) == {s[k] : k \in DOMAIN s}

Max(a, b) == IF a >= b THEN a ELSE b

\* arr[id] of a sparse array: a hole or an index past the end reads undefined
At(arr, id) == IF id + 1 \in DOMAIN arr THEN arr[id + 1] ELSE Undefined

\* obj[key] = value on a Record<number, T>
Put(obj, key, value) ==
    [k \in (DOMAIN obj) \cup {key} |-> IF k = key THEN value ELSE obj[k]]

\* String.prototype.toLowerCase on the symbols of the model
toLowerCase(s) ==
    CASE s = "Foo" -> "foo"
      [] s = "Bar" -> "bar"
      [] s = "BAR" -> "bar"
      [] s = "Baz" -> "baz"
      [] OTHER -> s

U32(hi, lo) == [hi |-> hi, lo |-> lo]

\* BigInt(value) & 0xFF000000n, as the top byte
TopByte(value) == value.hi \div 256

\* BigInt(value) & 0xF0000000n, as the top nibble
TopNibble(value) == value.hi \div 4096

----------------------------------------------------------------------------
(* sprintf-js, and the numbers vkpRawParser reads back from a patch text *)

\* the hexadecimal digits of n, most significant first
RECURSIVE Hex(_)
Hex(n) == IF n < 16 THEN <<n>> ELSE Append(Hex(n \div 16), n % 16)

\* zero padding on the left up to width digits
RECURSIVE ZeroPad(_, _)
ZeroPad(digits, width) ==
    IF Len(digits) >= width THEN digits ELSE ZeroPad(<<0>> \o digits, width)

\* sprintf("%04X", n): the digits of the text
sprintf04X(n) == ZeroPad(Hex(n), 4)

\* sprintf08X without the padding ("%X")
sprintf08X_NoPadding(value) ==
    IF value.hi = 0
    THEN Hex(value.lo)
    ELSE Hex(value.hi) \o ZeroPad(Hex(value.lo), 4)

\* sprintf("%08X", value) of an unsigned 32-bit number: the digits of the text
sprintf08X(value) ==
    IF value.hi = 0
    THEN ZeroPad(Hex(value.lo), 8)
    ELSE ZeroPad(ZeroPad(Hex(value.hi), 4) \o ZeroPad(Hex(value.lo), 4), 8)

HexChar(d) ==
    CASE d = 0 -> "0" [] d = 1 -> "1" [] d = 2 -> "2" [] d = 3 -> "3"
      [] d = 4 -> "4" [] d = 5 -> "5" [] d = 6 -> "6" [] d = 7 -> "7"
      [] d = 8 -> "8" [] d = 9 -> "9" [] d = 10 -> "A" [] d = 11 -> "B"
      [] d = 12 -> "C" [] d = 13 -> "D" [] d = 14 -> "E" [] d = 15 -> "F"

\* sprintf(" %3X: %s", id, name): the comment serializeSwilib writes for a
\* slot (id below 0x100)
sprintfComment(id, name) ==
    (IF id < 16
     THEN "   " \o HexChar(id)
     ELSE "  " \o HexChar(id \div 16) \o HexChar(id % 16)) \o ": " \o name

\* the number a text of hexadecimal digits denotes
RECURSIVE HexNumber(_)
HexNumber(digits) ==
    IF digits = <<>> THEN 0
    ELSE HexNumber(SubSeq(digits, 1, Len(digits) - 1)) * 16 + digits[Len(digits)]

\* the offset of "+<digits>", as an unsigned 32-bit number
HexOffset(digits) ==
    LET d == ZeroPad(digits, 8)
    IN  U32(HexNumber(SubSeq(d, 1, 4)), HexNumber(SubSeq(d, 5, 8)))

\* the bytes of "0x<digits>": a number of Len(digits) / 2 bytes, lowest first
HexBytesLE(digits) ==
    [k \in 1 .. (Len(digits) \div 2) |->
        digits[Len(digits) - 2 * k + 1] * 16 + digits[Len(digits) - 2 * k + 2]]

----------------------------------------------------------------------------
(* swilib/parse.ts: SwiValueType, SwiType, getSwilibValueType *)

SwiValueTypes == {"UNDEFINED", "POINTER_TO_RAM", "POINTER_TO_FLASH", "VALUE"}

SwiTypes == {"EMPTY", "FUNCTION", "POINTER", "VALUE"}

\* getSwilibValueType with the flash range ending one top byte early
getSwilibValueType_FlashBelowA7(value) ==
    IF value # U32(65535, 65535)
    THEN IF TopByte(value) >= 160 /\ TopByte(value) < 167
         THEN "POINTER_TO_FLASH"
         ELSE IF TopByte(value) >= 167 /\ TopByte(value) < 176
              THEN "POINTER_TO_RAM"
              ELSE "VALUE"
    ELSE "UNDEFINED"

getSwilibValueType(value) ==
    IF value # U32(65535, 65535)
    THEN IF TopByte(value) >= 160 /\ TopByte(value) < 168
         THEN "POINTER_TO_FLASH"
         ELSE IF TopByte(value) >= 168 /\ TopByte(value) < 176
              THEN "POINTER_TO_RAM"
              ELSE "VALUE"
    ELSE "UNDEFINED"

\* a SwiEntry as parseSwilibPatch creates it (comments option off)
SwiEntry(id, value, symbol) ==
    [def |-> TRUE, id |-> id, value |-> value, symbol |-> symbol,
     type |-> getSwilibValueType(value)]

\* the declaration text (name) an SDK header gives with a symbol
Declaration(symbol) ==
    CASE symbol = "Foo" -> "int Foo(void)"
      [] symbol = "Bar" -> "void Bar(int id)"
      [] OTHER -> symbol

\* an SdkEntry as parseLibraryFromSDK leaves it (the fields the analyzer reads)
SdkEntry(id, symbol, aliases, type, platforms, builtin) ==
    [def |-> TRUE, id |-> id, name |-> Declaration(symbol), symbol |-> symbol,
     aliases |-> aliases, type |-> type, platforms |-> platforms,
     builtin |-> builtin]

\* entries[id] = entry on a sparse array: the array grows, with holes, up to id
SetAt(arr, id, entry) ==
    [k \in 1 .. Max(Len(arr), id + 1) |->
        IF k = id + 1 THEN entry
        ELSE IF k <= Len(arr) THEN arr[k] ELSE Undefined]

\* Buffer.readUInt32LE(0) on a buffer of four bytes
readUInt32LE(buffer) ==
    U32(buffer[4] * 256 + buffer[3], buffer[2] * 256 + buffer[1])

\* the four bytes a patch writes for a value, lowest byte first
LEBytes(value) ==
    <<value.lo % 256, value.lo \div 256, value.hi % 256, value.hi \div 256>>

\* parseSwilibFuncName on the comments of the model: the clean-up and the
\* three patterns give the name before "(", the bare name after the type,
\* FUNC_<hex> for a bare "<hex>:", and undefined for anything else; of a
\* comment "<hex>: <declaration>" they give the declared name
parseSwilibFuncName(comm) ==
    CASE comm = " 000: Foo(void)" -> Some("Foo")
      [] comm = " 004: int Bar" -> Some("Bar")
      [] comm = " 008:" -> Some("FUNC_008")
      [] \E id \in 0 .. 15 : comm = sprintfComment(id, "int Foo(void)") -> Some("Foo")
      [] \E id \in 0 .. 15 : comm = sprintfComment(id, "void Bar(int id)") -> Some("Bar")
      [] OTHER -> Undefined

\* the locals of parseSwilibPatch when vkpRawParser starts; last and
\* terminated are history the code does not keep: the kind of the directive
\* read last ("offset" for a non-zero offset directive, "zero" for a
\* zero-valued one, "data" for a data directive), whether a zero-valued
\* offset directive has been read, and the data directive read last
ParserLocals(comments) ==
    [pc |-> "parsing",
     comments |-> comments,
     offset |-> Undefined,
     entries |-> <<>>,
     end |-> FALSE,
     thrown |-> Undefined,
     result |-> Undefined,
     last |-> "none",
     terminated |-> FALSE,
     data |-> Undefined]

\* throw new VkpParseError(message, loc)
Throw(p, message) == [p EXCEPT !.pc = "thrown", !.thrown = Some(message)]

\* onOffset storing every non-zero offset, the last one winning
onOffset_LastWins(p, value) ==
    IF value = U32(0, 0)
    THEN [p EXCEPT !.end = TRUE]
    ELSE [p EXCEPT !.offset = Some(value)]

\* the onOffset callback
onOffset(p, value) ==
    IF value = U32(0, 0)
    THEN [p EXCEPT !.end = TRUE]
    ELSE IF p.offset.def
         THEN Throw(p, "Duplicated offset")
         ELSE [p EXCEPT !.offset = Some(value)]

\* the entry onPatchData stores
NewEntry(p, data, id, symbol) ==
    IF p.comments
    THEN [def |-> TRUE, id |-> id, value |-> readUInt32LE(data.buffer),
          symbol |-> symbol, type |-> getSwilibValueType(readUInt32LE(data.buffer)),
          comment |-> data.comment]
    ELSE SwiEntry(id, readUInt32LE(data.buffer), symbol)

\* onPatchData without the check of the alignment
onPatchData_NoAlignCheck(p, data) ==
    IF p.end THEN Throw(p, "Entry after end")
    ELSE IF ~p.offset.def THEN Throw(p, "Entry without offset")
    ELSE IF Len(data.buffer) # 4 THEN Throw(p, "Value length is not equal 4")
    ELSE LET symbol == parseSwilibFuncName(data.comment)
             id == data.address \div 4
         IN  IF ~symbol.def
             THEN Throw(p, "Invalid comment")
             ELSE [p EXCEPT !.entries = SetAt(@, id, NewEntry(p, data, id, symbol.v))]

\* onPatchData without the check of end
onPatchData_NoEndCheck(p, data) ==
    IF ~p.offset.def THEN Throw(p, "Entry without offset")
    ELSE IF Len(data.buffer) # 4 THEN Throw(p, "Value length is not equal 4")
    ELSE IF data.address % 4 # 0 THEN Throw(p, "Address is not aligned to 4")
    ELSE LET symbol == parseSwilibFuncName(data.comment)
             id == data.address \div 4
         IN  IF ~symbol.def
             THEN Throw(p, "Invalid comment")
             ELSE [p EXCEPT !.entries = SetAt(@, id, NewEntry(p, data, id, symbol.v))]

\* the onPatchData callback
onPatchData(p, data) ==
    IF p.end THEN Throw(p, "Entry after end")
    ELSE IF ~p.offset.def THEN Throw(p, "Entry without offset")
    ELSE IF Len(data.buffer) # 4 THEN Throw(p, "Value length is not equal 4")
    ELSE IF data.address % 4 # 0 THEN Throw(p, "Address is not aligned to 4")
    ELSE LET symbol == parseSwilibFuncName(data.comment)
             id == data.address \div 4
         IN  IF ~symbol.def
             THEN Throw(p, "Invalid comment")
             ELSE [p EXCEPT !.entries = SetAt(@, id, NewEntry(p, data, id, symbol.v))]

\* return {offset: offset ?? 0, entries}
ParseResult(p) ==
    [offset |-> IF p.offset.def THEN p.offset.v ELSE U32(0, 0),
     entries |-> p.entries]

----------------------------------------------------------------------------
(* swilib/analyze.ts *)

\* the messages analyzeSwilib stores in errors[id]
ErrUnknownFunction(symbol) ==
    [kind |-> "Unknown function", symbol |-> symbol]

ErrAddressMustBeEqual(masterFunc) ==
    [kind |-> "Address must be equal with", slot |-> masterFunc.id,
     symbol |-> masterFunc.symbol, value |-> masterFunc.value]

ErrReserved(symbol) ==
    [kind |-> "Invalid function (Reserved by ELFLoader)", symbol |-> symbol]

ErrNotAvailable ==
    [kind |-> "Functions is not available on this platform."]

ErrInvalidFunction(symbol) ==
    [kind |-> "Invalid function", symbol |-> symbol]

ErrAddressAlreadyUsed(dupId, dupEntry) ==
    [kind |-> "Address already used for", slot |-> dupId,
     symbol |-> IF dupEntry.def THEN Some(dupEntry.symbol) ELSE Undefined]

ErrTypeMismatch(valueType, sdkType) ==
    [kind |-> "Type mismatch", swilib |-> valueType, sdk |-> sdkType]

\* functionPairs[p[i]] = p for every i (the inner loop of getFunctionPairs)
SetGroup(functionPairs, p) ==
    [s \in (DOMAIN functionPairs) \cup Range(p) |->
        IF s \in Range(p) THEN p ELSE functionPairs[s]]

RECURSIVE FunctionPairsFrom(_, _, _)
FunctionPairsFrom(pairs, k, functionPairs) ==
    IF k > Len(pairs)
    THEN functionPairs
    ELSE FunctionPairsFrom(pairs, k + 1, SetGroup(functionPairs, pairs[k]))

getFunctionPairs(swilibConfig) ==
    FunctionPairsFrom(swilibConfig.pairs, 1, <<>>)

\* isStrInArray comparing the strings as they are
isStrInArray_Exact(arr, search) ==
    /\ arr.def
    /\ \E k \in DOMAIN arr.v : arr.v[k] = search

\* arr is an optional array of strings
isStrInArray(arr, search) ==
    /\ arr.def
    /\ \E k \in DOMAIN arr.v : toLowerCase(arr.v[k]) = toLowerCase(search)

\* config.functions.aliases.get(id)
AliasesGet(cfg, id) ==
    IF id \in DOMAIN cfg.aliases THEN Some(cfg.aliases[id]) ELSE Undefined

isSameFunctions(cfg, swiEntry, sdkEntry) ==
    IF ~sdkEntry.def /\ ~swiEntry.def THEN TRUE
    ELSE IF ~sdkEntry.def \/ ~swiEntry.def THEN FALSE
    ELSE IF sdkEntry.id # swiEntry.id THEN FALSE
    ELSE IF sdkEntry.symbol = swiEntry.symbol THEN TRUE
    ELSE IF isStrInArray(Some(sdkEntry.aliases), swiEntry.symbol) THEN TRUE
    ELSE IF isStrInArray(AliasesGet(cfg, sdkEntry.id), swiEntry.symbol) THEN TRUE
    ELSE FALSE

\* typesMap with FUNCTION admitting plain values
typesMap_FunctionAdmitsValue(sdkType) ==
    CASE sdkType = "FUNCTION" -> {"POINTER_TO_FLASH", "VALUE"}
      [] sdkType = "POINTER" -> {"POINTER_TO_FLASH", "POINTER_TO_RAM"}
      [] sdkType = "VALUE" -> {"VALUE"}
      [] sdkType = "EMPTY" -> {}

typesMap(sdkType) ==
    CASE sdkType = "FUNCTION" -> {"POINTER_TO_FLASH"}
      [] sdkType = "POINTER" -> {"POINTER_TO_FLASH", "POINTER_TO_RAM"}
      [] sdkType = "VALUE" -> {"VALUE"}
      [] sdkType = "EMPTY" -> {}

\* the message, or Undefined when the types agree
checkTypeConsistency(swiEntry, sdkEntry) ==
    IF swiEntry.type \notin typesMap(sdkEntry.type)
    THEN Some(ErrTypeMismatch(swiEntry.type, sdkEntry.type))
    ELSE Undefined

\* AnalyzeLocals with the loop bound taken from the catalog alone
AnalyzeLocals_CatalogLength(cfg, swi, sdk) ==
    [pc |-> "loop",
     maxFunctionId |-> Len(sdk.entries),
     errors |-> <<>>,
     duplicates |-> <<>>,
     missing |-> <<>>,
     functionPairs |-> getFunctionPairs(cfg),
     platform |-> swi.platform,
     goodCnt |-> 0,
     totalCnt |-> 0,
     unusedCnt |-> 0,
     id |-> 0,
     visited |-> <<>>,
     result |-> Undefined]

\* the locals of analyzeSwilib before the loop
AnalyzeLocals(cfg, swi, sdk) ==
    [pc |-> "loop",
     maxFunctionId |-> Max(Len(sdk.entries), Len(swi.entries)),
     errors |-> <<>>,
     duplicates |-> <<>>,
     missing |-> <<>>,
     functionPairs |-> getFunctionPairs(cfg),
     platform |-> swi.platform,
     goodCnt |-> 0,
     totalCnt |-> 0,
     unusedCnt |-> 0,
     id |-> 0,
     visited |-> <<>>,
     result |-> Undefined]

\* duplicates[value] is truthy
DuplicateOf(duplicates, value) ==
    IF value \in DOMAIN duplicates /\ duplicates[value] # 0
    THEN Some(duplicates[value])
    ELSE Undefined

\* PairCheck against the last member of the group instead of the first
PairCheck_LastMember(swi, fr, id, swiEntry) ==
    IF id \in DOMAIN fr.functionPairs
    THEN LET p == fr.functionPairs[id]
             masterFunc == At(swi.entries, p[Len(p)])
         IN  IF masterFunc.def /\ (~swiEntry.def \/ masterFunc.value # swiEntry.value)
             THEN Put(fr.errors, id, ErrAddressMustBeEqual(masterFunc))
             ELSE fr.errors
    ELSE fr.errors

\* the pair check of one iteration: the errors map after it
PairCheck(swi, fr, id, swiEntry) ==
    IF id \in DOMAIN fr.functionPairs
    THEN LET masterFunc == At(swi.entries, fr.functionPairs[id][1])
         IN  IF masterFunc.def /\ (~swiEntry.def \/ masterFunc.value # swiEntry.value)
             THEN Put(fr.errors, id, ErrAddressMustBeEqual(masterFunc))
             ELSE fr.errors
    ELSE fr.errors

\* the duplicate-address check of one iteration: the errors map after it
DuplicateCheck(sdk, fr, errors, id, swiEntry) ==
    IF TopNibble(swiEntry.value) = 10
    THEN LET dup == DuplicateOf(fr.duplicates, swiEntry.value)
         IN  IF dup.def
             THEN IF \/ swiEntry.id \notin DOMAIN fr.functionPairs
                     \/ dup.v \notin Range(fr.functionPairs[swiEntry.id])
                  THEN Put(errors, id, ErrAddressAlreadyUsed(dup.v, At(sdk.entries, dup.v)))
                  ELSE errors
             ELSE errors
    ELSE errors

\* TypeCheck run for catalog functions only
TypeCheck_FunctionsOnly(errors, id, swiEntry, sdkEntry) ==
    IF id \notin DOMAIN errors /\ swiEntry.type # "UNDEFINED"
         /\ sdkEntry.type = "FUNCTION"
    THEN LET typeError == checkTypeConsistency(swiEntry, sdkEntry)
         IN  IF typeError.def THEN Put(errors, id, typeError.v) ELSE errors
    ELSE errors

\* the type check of one iteration: the errors map after it
TypeCheck(errors, id, swiEntry, sdkEntry) ==
    IF id \notin DOMAIN errors /\ swiEntry.type # "UNDEFINED"
    THEN LET typeError == checkTypeConsistency(swiEntry, sdkEntry)
         IN  IF typeError.def THEN Put(errors, id, typeError.v) ELSE errors
    ELSE errors

\* sdkEntry.builtin?.includes(platform)
BuiltinOn(sdkEntry, platform) ==
    sdkEntry.builtin.def /\ platform \in Range(sdkEntry.builtin.v)

\* ReservedByConfig of a version without the configured reserved ranges
ReservedByConfig_Ignored(cfg, id) == FALSE

\* config.functions.reserved.has(id)
ReservedByConfig(cfg, id) == id \in cfg.reserved

\* ExcludedOn of a version without platform restrictions
ExcludedOn_Never(sdkEntry, platform) == FALSE

\* sdkEntry.platforms && !sdkEntry.platforms.includes(platform)
ExcludedOn(sdkEntry, platform) ==
    sdkEntry.platforms.def /\ platform \notin Range(sdkEntry.platforms.v)

\* UnknownSlot storing no error
UnknownSlot_Silent(fr, id, swiEntry) == fr

\* UnknownSlot leaving the loop (break) instead of continuing
UnknownSlot_Breaks(fr, id, swiEntry) ==
    [fr EXCEPT !.errors = Put(@, id, ErrUnknownFunction(swiEntry.symbol)),
               !.id = fr.maxFunctionId]

\* UnknownSlot falling through to the missing list
UnknownSlot_AlsoMissing(fr, id, swiEntry) ==
    [fr EXCEPT !.errors = Put(@, id, ErrUnknownFunction(swiEntry.symbol)),
               !.missing = Append(@, id)]

\* a patch entry without a catalog entry: the error is stored and the loop
\* continues with the next id
UnknownSlot(fr, id, swiEntry) ==
    [fr EXCEPT !.errors = Put(@, id, ErrUnknownFunction(swiEntry.symbol))]

\* a catalog entry without a patch entry: missing unless it has a builtin list
AbsentSlot(fr, id, sdkEntry) ==
    IF ~sdkEntry.builtin.def
    THEN [fr EXCEPT !.missing = Append(@, id)]
    ELSE fr

\* one iteration of the for loop of analyzeSwilib, on the locals fr: the
\* locals after it (id++ included; visited is the history of the ids the body
\* ran for, which the code does not keep)
LoopBody(cfg, swi, sdk, fr) ==
    LET id == fr.id
        swiEntry == At(swi.entries, id)
        sdkEntry == At(sdk.entries, id)
        seen == [fr EXCEPT !.id = id + 1, !.visited = Append(@, id)]
    IN
    IF ~sdkEntry.def /\ ~swiEntry.def
    THEN [seen EXCEPT !.unusedCnt = @ + 1]
    ELSE
    LET counted == [seen EXCEPT !.totalCnt = @ + 1] IN
    IF ~sdkEntry.def
    THEN UnknownSlot(counted, id, swiEntry)
    ELSE
    LET paired == [counted EXCEPT !.errors = PairCheck(swi, fr, id, swiEntry)] IN
    IF ~swiEntry.def
    THEN AbsentSlot(paired, id, sdkEntry)
    ELSE
    IF BuiltinOn(sdkEntry, fr.platform)
    THEN [paired EXCEPT !.errors = Put(@, id, ErrReserved(swiEntry.symbol))]
    ELSE
    IF ReservedByConfig(cfg, id)
    THEN [paired EXCEPT !.errors = Put(@, id, ErrReserved(swiEntry.symbol))]
    ELSE
    IF ExcludedOn(sdkEntry, fr.platform)
    THEN [paired EXCEPT !.errors = Put(@, id, ErrNotAvailable)]
    ELSE
    IF ~isSameFunctions(cfg, swiEntry, sdkEntry)
    THEN [paired EXCEPT !.errors = Put(@, id, ErrInvalidFunction(swiEntry.symbol))]
    ELSE
    LET errors == TypeCheck(DuplicateCheck(sdk, fr, paired.errors, id, swiEntry),
                            id, swiEntry, sdkEntry)
    IN  [paired EXCEPT !.errors = errors,
                       !.goodCnt = IF id \notin DOMAIN errors THEN @ + 1 ELSE @]

\* IterationEffect re-deriving and storing the type of the visited patch entry
\* as the catalog expects it
IterationEffect_RetypesEntry(cfg, swi, sdk, fr) ==
    [config |-> cfg,
     swilib |-> IF At(swi.entries, fr.id).def /\ At(sdk.entries, fr.id).def
                THEN [swi EXCEPT !.entries[fr.id + 1].type = "POINTER_TO_FLASH"]
                ELSE swi,
     sdklib |-> sdk,
     call |-> LoopBody(cfg, swi, sdk, fr)]

\* IterationEffect taking the group's first member off the configured group
\* (p.shift()) when it looks at a paired slot
IterationEffect_ShiftsGroup(cfg, swi, sdk, fr) ==
    [config |-> [cfg EXCEPT !.pairs =
                    [k \in DOMAIN cfg.pairs |->
                        IF fr.id \in Range(cfg.pairs[k]) /\ Len(cfg.pairs[k]) > 1
                        THEN Tail(cfg.pairs[k]) ELSE cfg.pairs[k]]],
     swilib |-> swi, sdklib |-> sdk,
     call |-> LoopBody(cfg, swi, sdk, fr)]

\* the heap and the locals after one iteration: the loop writes its locals only
IterationEffect(cfg, swi, sdk, fr) ==
    [config |-> cfg, swilib |-> swi, sdklib |-> sdk,
     call |-> LoopBody(cfg, swi, sdk, fr)]

\* AnalysisResult with bad taken as the rest of total
AnalysisResult_BadIsRest(fr) ==
    [errors |-> fr.errors,
     missing |-> fr.missing,
     stat |-> [bad |-> fr.totalCnt - fr.goodCnt - Len(fr.missing),
               good |-> fr.goodCnt,
               missing |-> Len(fr.missing),
               total |-> fr.totalCnt,
               unused |-> fr.unusedCnt]]

\* the return statement of analyzeSwilib
AnalysisResult(fr) ==
    [errors |-> fr.errors,
     missing |-> fr.missing,
     stat |-> [bad |-> Cardinality(DOMAIN fr.errors),
               good |-> fr.goodCnt,
               missing |-> Len(fr.missing),
               total |-> fr.totalCnt,
               unused |-> fr.unusedCnt]]

----------------------------------------------------------------------------
(* sdklib/disassembler.ts: getGhidraSymbols, getIdaSymbols *)

\* the ids for which the loop of an emitter gets past its two `continue`s and
\* reads sdkEntry.type
EmitterReads(swi, sdk, analysis) ==
    {id \in 0 .. (Len(sdk.entries) - 1) :
        At(swi.entries, id).def /\ id \notin DOMAIN analysis.errors}

----------------------------------------------------------------------------
(* swilib/utils.ts: serializeSwilib.  The text is the sequence of its lines; *)
(* a line is an offset directive, a data directive, or a line the patch      *)
(* parser passes over (empty, a ";" comment, a #pragma).                      *)

IgnoredLine == [kind |-> "ignored"]

\* "+<digits>"
OffsetLine(digits) == [kind |-> "offset", digits |-> digits]

\* sprintf("%04X: 0x%08X   ;%s", id * 4, value, comment)
DataLine(id, value, comment) ==
    [kind |-> "data", address |-> sprintf04X(id * 4), value |-> sprintf08X(value),
     comment |-> comment]

\* (sdkEntry?.name || '').replace(/\s+/gs, ' ').trim(): the declarations of
\* the model have single spaces and no space at either end
NameOf(sdkEntry) == IF sdkEntry.def THEN sdkEntry.name ELSE ""

\* swiEntry?.comment != null
HasComment(swiEntry) == swiEntry.def /\ "comment" \in DOMAIN swiEntry

\* the lines the loop of serializeSwilib pushes for one id
SerializeEntry(swi, sdk, analysis, id) ==
    LET swiEntry == At(swi.entries, id)
        sdkEntry == At(sdk.entries, id)
        name == NameOf(sdkEntry)
    IN  (IF id % 16 = 0 THEN <<IgnoredLine>> ELSE <<>>) \o
        (IF id \in DOMAIN analysis.errors
         THEN <<IgnoredLine, IgnoredLine, IgnoredLine, IgnoredLine>>
         ELSE IF sdkEntry.def
         THEN IF HasComment(swiEntry)
              THEN <<DataLine(id, swiEntry.value, swiEntry.comment)>>
              ELSE IF swiEntry.def
                   THEN <<DataLine(id, swiEntry.value, sprintfComment(id, name))>>
                   ELSE <<IgnoredLine>>
         ELSE <<IgnoredLine>>)

RECURSIVE SerializeFrom(_, _, _, _)
SerializeFrom(swi, sdk, analysis, id) ==
    IF id < Len(sdk.entries)
    THEN SerializeEntry(swi, sdk, analysis, id)
            \o SerializeFrom(swi, sdk, analysis, id + 1)
    ELSE <<>>

\* the lines of the text, given the result of analyzeSwilib (swilib.target
\* is not set by the parser)
serializeSwilib(swi, sdk, analysis) ==
    <<OffsetLine(sprintf08X(swi.offset)), IgnoredLine>>
        \o SerializeFrom(swi, sdk, analysis, 0)
        \o <<IgnoredLine, IgnoredLine, OffsetLine(<<0>>)>>

\* vkpRawParser on one line of such a text: the callback it calls
ReadLine(p, line) ==
    CASE line.kind = "offset" -> onOffset(p, HexOffset(line.digits))
      [] line.kind = "data" ->
            onPatchData(p, [address |-> HexNumber(line.address),
                            buffer |-> HexBytesLE(line.value),
                            comment |-> line.comment])
      [] line.kind = "ignored" -> p

----------------------------------------------------------------------------
(* swilib/utils.ts: getSwiBlib.  A Buffer is the sequence of its bytes, the  *)
(* byte at offset k being element k + 1.                                      *)

\* the slots of the blob: the loop runs for id < 0x1000
BlibSlots == 4096

\* Buffer.alloc(16 * 1024)
BlibBytes == 16384

\* the value getSwiBlib writes for a slot: swiEntry?.value != null
BlibValue(swi, id) ==
    IF At(swi.entries, id).def THEN At(swi.entries, id).value ELSE U32(65535, 65535)

\* getSwiBlib writing zeroes for the slots without a value
getSwiBlib_ZeroFill(swi) ==
    [k \in 1 .. BlibBytes |->
        IF (k - 1) \div 4 < BlibSlots /\ At(swi.entries, (k - 1) \div 4).def
        THEN LEBytes(BlibValue(swi, (k - 1) \div 4))[((k - 1) % 4) + 1]
        ELSE 0]

\* the Buffer after the loop: Buffer.alloc zero-fills, and the loop calls
\* writeUInt32LE once for every id below 0x1000, at offset id * 4, so the
\* byte at an offset is byte (offset % 4) of the value written for slot
\* offset / 4, and zero past the slots
getSwiBlib(swi) ==
    [k \in 1 .. BlibBytes |->
        IF (k - 1) \div 4 < BlibSlots
        THEN LEBytes(BlibValue(swi, (k - 1) \div 4))[((k - 1) % 4) + 1]
        ELSE 0]

----------------------------------------------------------------------------
(* The inputs of an analysis *)

\* 0xA0001000, 0xA0002000: flash addresses
FlashA == U32(40960, 4096)

FlashB == U32(40960, 8192)

\* 0xA8000000: a RAM address
RamA == U32(43008, 0)

\* 0x00001234: a plain number
Num == U32(0, 4660)

\* 0xFFFFFFFF: the unset value
Unset == U32(65535, 65535)

\* the tables of length n whose slot k is drawn from choices[k]
RECURSIVE TablesOfLen(_, _)
TablesOfLen(choices, n) ==
    IF n = 0
    THEN {<<>>}
    ELSE {Append(t, e) : t \in TablesOfLen(choices, n - 1), e \in choices[n - 1]}

\* the tables of length 0 .. MaxSlots; a table built by entries[id] = e ends
\* with an entry, never with a hole
Tables(choices) ==
    {t \in UNION {TablesOfLen(choices, n) : n \in 0 .. MaxSlots} :
        t = <<>> \/ t[Len(t)].def}

\* a pairing group: distinct slots, two or three of them, in configured order
Groups ==
    {g \in UNION {[1 .. n -> Slots] : n \in 2 .. 3} :
        \A i, j \in DOMAIN g : i # j => g[i] # g[j]}

\* the activation before analyzeSwilib is entered
NotCalled == [pc |-> "call"]

\* the parser is not running
NoParser == [pc |-> "idle"]

\* no analyses run side by side
NoCalls == <<>>

\* nothing has been serialized
NoText == [pc |-> "idle"]

\* getSwiBlib has not been called
NoBlib == [pc |-> "call"]

\* parseLibraryFromSDK is not running
NoBuilder == [pc |-> "idle"]

\* an analysis about to start on the given inputs
InitAnalysis(sdkChoices, swiChoices, pairs, reserved, aliases, platforms) ==
    /\ config \in [pairs : pairs, aliases : aliases, reserved : reserved]
    /\ swilib \in [entries : Tables(swiChoices), platform : platforms]
    /\ sdklib \in [entries : Tables(sdkChoices)]
    /\ call = NotCalled
    /\ calls = NoCalls
    /\ parser = NoParser
    /\ vkp = NoText
    /\ blib = NoBlib
    /\ builder = NoBuilder

----------------------------------------------------------------------------
(* analyzeSwilib, step by step *)

\* lines 18-27: the locals are created, getFunctionPairs(config) included
AnalyzeBegin ==
    /\ call.pc = "call"
    /\ call' = AnalyzeLocals(config, swilib, sdklib)
    /\ UNCHANGED <<config, swilib, sdklib, calls, parser, vkp, blib, builder>>

\* lines 29-94: one iteration of the loop over [0, maxFunctionId)
AnalyzeIteration ==
    /\ call.pc = "loop"
    /\ call.id < call.maxFunctionId
    /\ LET after == IterationEffect(config, swilib, sdklib, call)
       IN  /\ config' = after.config
           /\ swilib' = after.swilib
           /\ sdklib' = after.sdklib
           /\ call' = after.call
    /\ UNCHANGED <<calls, parser, vkp, blib, builder>>

\* lines 96-106: the loop is over and the result is returned
AnalyzeReturn ==
    /\ call.pc = "loop"
    /\ ~(call.id < call.maxFunctionId)
    /\ call' = [call EXCEPT !.pc = "done", !.result = Some(AnalysisResult(call))]
    /\ UNCHANGED <<config, swilib, sdklib, calls, parser, vkp, blib, builder>>

NextAnalysis ==
    \/ AnalyzeBegin
    \/ AnalyzeIteration
    \/ AnalyzeReturn

\* a pairing group of exactly two slots
Pairs == {g \in Groups : Len(g) = 2}

\* Catalog entries: none, a plain function, a function reserved on ELKA
SdkPlain ==
    [id \in Slots |->
        {Undefined,
         SdkEntry(id, "Foo", <<"Foo">>, "FUNCTION", Undefined, Undefined),
         SdkEntry(id, "Foo", <<"Foo">>, "FUNCTION", Undefined, Some(<<"ELKA">>))}]

\* Patch entries: none, a flash address or a number under the catalog name
SwiPlain ==
    [id \in Slots |->
        {Undefined, SwiEntry(id, FlashA, "Foo"), SwiEntry(id, Num, "Foo")}]

NoAliases == {<<>>}

\* Analyses of plain tables under no pairing group or one pair
Init ==
    InitAnalysis(SdkPlain, SwiPlain, {<<>>} \cup {<<g>> : g \in Pairs},
                 {{}}, NoAliases, {"ELKA", "NSG"})

Spec == Init /\ [][NextAnalysis]_vars

\* Catalog entries: none, a plain function, a function reserved on ELKA, a
\* function available on ELKA only
SdkRestricted ==
    [id \in Slots |->
        {Undefined,
         SdkEntry(id, "Foo", <<"Foo">>, "FUNCTION", Undefined, Undefined),
         SdkEntry(id, "Foo", <<"Foo">>, "FUNCTION", Undefined, Some(<<"ELKA">>)),
         SdkEntry(id, "Foo", <<"Foo">>, "FUNCTION", Some(<<"ELKA">>), Undefined)}]

\* Patch entries: none, a flash address under the catalog name, another
\* flash address under another name
SwiNamed ==
    [id \in Slots |->
        {Undefined, SwiEntry(id, FlashA, "Foo"), SwiEntry(id, FlashB, "Bar")}]

\* Analyses of tables with reserved and platform-restricted slots, slot 1
\* reserved by the configuration or not, slots 0 and 1 paired or not
InitReserved ==
    InitAnalysis(SdkRestricted, SwiNamed, {<<>>, <<<<0, 1>>>>, <<<<1, 0>>>>},
                 {{}, {1}}, NoAliases, {"ELKA", "NSG"})

SpecReserved == InitReserved /\ [][NextAnalysis]_vars

\* Catalog entries of each kind: none, a function, a pointer, a value
SdkKinds ==
    [id \in Slots |->
        {Undefined,
         SdkEntry(id, "Foo", <<"Foo">>, "FUNCTION", Undefined, Undefined),
         SdkEntry(id, "Foo", <<"Foo">>, "POINTER", Undefined, Undefined),
         SdkEntry(id, "Foo", <<"Foo">>, "VALUE", Undefined, Undefined)}]

\* Patch entries of each valueKind: none, a flash address, a RAM address, a
\* number, the unset value
SwiKinds ==
    [id \in Slots |->
        {Undefined, SwiEntry(id, FlashA, "Foo"), SwiEntry(id, RamA, "Foo"),
         SwiEntry(id, Num, "Foo"), SwiEntry(id, Unset, "Foo")}]

\* Analyses of tables of every kind and valueKind, slots 0 and 1 paired or not
InitKinds ==
    InitAnalysis(SdkKinds, SwiKinds, {<<>>, <<<<0, 1>>>>}, {{}}, NoAliases,
                 {"ELKA"})

SpecKinds == InitKinds /\ [][NextAnalysis]_vars

\* Catalog entries with alias sets: none, Foo alone, Foo also declared as Bar
SdkAliased ==
    [id \in Slots |->
        {Undefined,
         SdkEntry(id, "Foo", <<"Foo">>, "FUNCTION", Undefined, Undefined),
         SdkEntry(id, "Foo", <<"Foo", "Bar">>, "FUNCTION", Undefined, Undefined)}]

\* Patch entries under the names Foo, Bar, BAR, Baz, and none
SwiSymbols ==
    [id \in Slots |->
        {Undefined} \cup
        {SwiEntry(id, FlashA, symbol) : symbol \in {"Foo", "Bar", "BAR", "Baz"}}]

\* the configured alias lists: none, or Baz for slot 1
AliasLists == {<<>>, [id \in {1} |-> <<"Baz">>]}

\* Analyses of tables whose names differ, under the alias lists above
InitNames ==
    InitAnalysis(SdkAliased, SwiSymbols, {<<>>}, {{}}, AliasLists, {"ELKA"})

SpecNames == InitNames /\ [][NextAnalysis]_vars

\* Patch entries of the grouped analyses: none, or one of two flash addresses
SwiFlash ==
    [id \in Slots |->
        {Undefined, SwiEntry(id, FlashA, "Foo"), SwiEntry(id, FlashB, "Foo")}]

\* Catalog entries of the grouped analyses: a plain function in every slot
SdkFunctions ==
    [id \in Slots |->
        {SdkEntry(id, "Foo", <<"Foo">>, "FUNCTION", Undefined, Undefined)}]

\* the configured groups: one group of three, alone or followed by the pair
\* of its last and its first member
GroupLists ==
    {<<g>> : g \in {h \in Groups : Len(h) = 3}}
    \cup {<<g, <<g[3], g[1]>>>> : g \in {h \in Groups : Len(h) = 3}}

InitGroups ==
    InitAnalysis(SdkFunctions, SwiFlash, GroupLists, {{}}, NoAliases, {"ELKA"})

\* Analyses under pairing groups of three members
SpecGroups == InitGroups /\ [][NextAnalysis]_vars

----------------------------------------------------------------------------
(* parseSwilibPatch, directive by directive *)

\* the offsets a patch declares: +0 (the terminator), +A0000000, +A0800000
OffsetValues == {U32(0, 0), U32(40960, 0), U32(41088, 0)}

\* the data directives vkpRawParser hands over: aligned slot addresses and
\* one unaligned address, four-byte values and one two-byte value, comments
\* of each shape parseSwilibFuncName knows and one it rejects
PatchData ==
    [address : {4 * id : id \in Slots} \cup {2},
     buffer : {LEBytes(FlashA), LEBytes(Num), LEBytes(Unset), <<52, 18>>},
     comment : {" 000: Foo(void)", " 004: int Bar", " 008:", " ???"}]

InitParse ==
    /\ parser \in {ParserLocals(comments) : comments \in BOOLEAN}
    /\ config = Undefined
    /\ swilib = Undefined
    /\ sdklib = Undefined
    /\ call = [pc |-> "unused"]
    /\ calls = NoCalls
    /\ vkp = NoText
    /\ blib = NoBlib
    /\ builder = NoBuilder

\* vkpRawParser reads an offset directive
OnOffset ==
    /\ parser.pc = "parsing"
    /\ \E value \in OffsetValues :
          parser' = [onOffset(parser, value) EXCEPT
                        !.last = IF value = U32(0, 0) THEN "zero" ELSE "offset",
                        !.terminated = @ \/ value = U32(0, 0)]
    /\ UNCHANGED <<config, swilib, sdklib, call, calls, vkp, blib, builder>>

\* vkpRawParser reads a data directive
OnPatchData ==
    /\ parser.pc = "parsing"
    /\ \E data \in PatchData :
          parser' = [onPatchData(parser, data) EXCEPT !.last = "data"]
    /\ UNCHANGED <<config, swilib, sdklib, call, calls, vkp, blib, builder>>

\* the text is over: parseSwilibPatch returns the table
ParseReturn ==
    /\ parser.pc = "parsing"
    /\ parser' = [parser EXCEPT !.pc = "returned",
                                !.result = Some(ParseResult(parser))]
    /\ UNCHANGED <<config, swilib, sdklib, call, calls, vkp, blib, builder>>

NextParse ==
    \/ OnOffset
    \/ OnPatchData
    \/ ParseReturn

SpecParse == InitParse /\ [][NextParse]_vars

\* data directives of every shape: aligned and unaligned addresses, values of
\* two, four and five bytes, a comment with a name and one without
ShapedData ==
    [address : {4 * id : id \in Slots} \cup {2, 5},
     buffer : {LEBytes(FlashA), <<52, 18>>, <<1, 2, 3, 4, 5>>},
     comment : {" 000: Foo(void)", " ???"}]

\* vkpRawParser reads a data directive of one of these shapes
OnShapedData ==
    /\ parser.pc = "parsing"
    /\ \E data \in ShapedData :
          parser' = [onPatchData(parser, data) EXCEPT !.last = "data",
                                                      !.data = Some(data)]
    /\ UNCHANGED <<config, swilib, sdklib, call, calls, vkp, blib, builder>>

NextShapes ==
    \/ OnOffset
    \/ OnShapedData
    \/ ParseReturn

\* parseSwilibPatch on patches with well-formed and malformed data directives
SpecShapes == InitParse /\ [][NextShapes]_vars

\* 32-bit values around the limits of the address ranges: 0x9FFF...,
\* 0xA000..., 0xA7FF..., 0xA800..., 0xAFFF..., 0xB000..., 0x0000..., 0xFFFF...
EdgeValues ==
    {U32(hi, lo) : hi \in {0, 40959, 40960, 43007, 43008, 45055, 45056, 65535},
                   lo \in {0, 4660, 65535}}

\* data directives for the first two slots carrying the values above
EdgeData ==
    [address : {0, 4},
     buffer : {LEBytes(value) : value \in EdgeValues},
     comment : {" 000: Foo(void)"}]

\* vkpRawParser reads a data directive of a patch of such values
OnEdgeData ==
    /\ parser.pc = "parsing"
    /\ \E data \in EdgeData :
          parser' = [onPatchData(parser, data) EXCEPT !.last = "data"]
    /\ UNCHANGED <<config, swilib, sdklib, call, calls, vkp, blib, builder>>

NextEdges ==
    \/ OnOffset
    \/ OnEdgeData
    \/ ParseReturn

\* parseSwilibPatch on patches whose values lie around the range limits
SpecEdges == InitParse /\ [][NextEdges]_vars

----------------------------------------------------------------------------
(* parseSwilibPatch, serializeSwilib, parseSwilibPatch again *)

\* Catalog entries of the serialized tables: none, a plain function, a
\* plain value
SdkNamed ==
    [id \in Slots |->
        {Undefined,
         SdkEntry(id, "Foo", <<"Foo">>, "FUNCTION", Undefined, Undefined),
         SdkEntry(id, "Foo", <<"Foo">>, "VALUE", Undefined, Undefined)}]

\* the data directives of the first text: a flash address or a number for
\* any slot
TextData ==
    [address : {4 * id : id \in Slots},
     buffer : {LEBytes(FlashA), LEBytes(Num)},
     comment : {" 000: Foo(void)"}]

InitRoundTrip ==
    /\ parser \in {ParserLocals(comments) : comments \in BOOLEAN}
    /\ config = [pairs |-> <<>>, aliases |-> <<>>, reserved |-> {}]
    /\ sdklib \in [entries : Tables(SdkNamed)]
    /\ swilib = Undefined
    /\ call = [pc |-> "unused"]
    /\ calls = NoCalls
    /\ vkp = NoText
    /\ blib = NoBlib
    /\ builder = NoBuilder

\* vkpRawParser reads a data directive of the first text
OnTextData ==
    /\ parser.pc = "parsing"
    /\ \E data \in TextData :
          parser' = [onPatchData(parser, data) EXCEPT !.last = "data"]
    /\ UNCHANGED <<config, swilib, sdklib, call, calls, vkp, blib, builder>>

\* serializeSwilib is called with the parsed table (the caller sets the
\* platform) and calls analyzeSwilib
SerializeBegin ==
    /\ parser.pc = "returned"
    /\ call.pc = "unused"
    /\ swilib' = [offset |-> parser.result.v.offset,
                  entries |-> parser.result.v.entries,
                  platform |-> "ELKA"]
    /\ call' = NotCalled
    /\ UNCHANGED <<config, sdklib, calls, parser, vkp, blib, builder>>

\* analyzeSwilib has returned: the text is built, and handed to
\* parseSwilibPatch under the options of the first parse
SerializeReturn ==
    /\ call.pc = "done"
    /\ vkp.pc = "idle"
    /\ vkp' = [pc |-> "reading",
               lines |-> serializeSwilib(swilib, sdklib, call.result.v),
               pos |-> 1,
               parser |-> ParserLocals(parser.comments)]
    /\ UNCHANGED <<config, swilib, sdklib, call, calls, parser, blib, builder>>

\* vkpRawParser reads the next line of the serialized text
OnSerializedLine ==
    /\ vkp.pc = "reading"
    /\ vkp.parser.pc = "parsing"
    /\ vkp.pos <= Len(vkp.lines)
    /\ vkp' = [vkp EXCEPT !.parser = ReadLine(@, vkp.lines[vkp.pos]),
                          !.pos = @ + 1]
    /\ UNCHANGED <<config, swilib, sdklib, call, calls, parser, blib, builder>>

\* the serialized text is over: the second parseSwilibPatch returns
ReparseReturn ==
    /\ vkp.pc = "reading"
    /\ vkp.parser.pc = "parsing"
    /\ vkp.pos > Len(vkp.lines)
    /\ vkp' = [vkp EXCEPT !.pc = "done",
                          !.parser = [@ EXCEPT !.pc = "returned",
                                               !.result = Some(ParseResult(vkp.parser))]]
    /\ UNCHANGED <<config, swilib, sdklib, call, calls, parser, blib, builder>>

NextRoundTrip ==
    \/ OnOffset
    \/ OnTextData
    \/ ParseReturn
    \/ SerializeBegin
    \/ AnalyzeBegin
    \/ AnalyzeIteration
    \/ AnalyzeReturn
    \/ SerializeReturn
    \/ OnSerializedLine
    \/ ReparseReturn

SpecRoundTrip == InitRoundTrip /\ [][NextRoundTrip]_vars

----------------------------------------------------------------------------
(* getSwiBlib *)

\* entries[e.id] = e, for an entry the patch has
PutEntry(t, e) == IF e.def THEN SetAt(t, e.id, e) ELSE t

\* the patch tables handed to getSwiBlib: slots 0, 1 and 2, the last slot of
\* the blob and the slot after it, each without an entry or with one
BlibTables ==
    {PutEntry(PutEntry(PutEntry(PutEntry(PutEntry(<<>>, a), b), c), d), e) :
        a \in {Undefined, SwiEntry(0, FlashA, "Foo"), SwiEntry(0, Unset, "Foo")},
        b \in {Undefined, SwiEntry(1, Num, "Foo"), SwiEntry(1, RamA, "Foo")},
        c \in {Undefined, SwiEntry(2, Num, "Foo")},
        d \in {Undefined, SwiEntry(BlibSlots - 1, FlashB, "Bar")},
        e \in {Undefined, SwiEntry(BlibSlots, FlashB, "Bar")}}

InitBlib ==
    /\ swilib \in [entries : BlibTables]
    /\ config = Undefined
    /\ sdklib = Undefined
    /\ call = [pc |-> "unused"]
    /\ calls = NoCalls
    /\ parser = NoParser
    /\ vkp = NoText
    /\ blib = NoBlib
    /\ builder = NoBuilder

\* getSwiBlib(swilib) runs and returns the Buffer
GetSwiBlib ==
    /\ blib.pc = "call"
    /\ blib' = [pc |-> "done", buffer |-> getSwiBlib(swilib)]
    /\ UNCHANGED <<config, swilib, sdklib, call, calls, parser, vkp, builder>>

NextBlib == GetSwiBlib

SpecBlib == InitBlib /\ [][NextBlib]_vars

----------------------------------------------------------------------------
(* Analyses run side by side by one caller, on one shared configuration *)

\* the callers that run analyses side by side
Callers == {"a", "b"}

\* Catalog of the side-by-side analyses: a plain function at every slot
SdkFull ==
    [id \in Slots |->
        {SdkEntry(id, "Foo", <<"Foo">>, "FUNCTION", Undefined, Undefined)}]

\* Patch entries of the side-by-side analyses: none, or a flash address
SwiSparse == [id \in Slots |-> {Undefined, SwiEntry(id, FlashA, "Foo")}]

\* the tables a caller may hand to analyzeSwilib
CallInputs ==
    [swilib : [entries : Tables(SwiSparse), platform : {"ELKA"}],
     sdklib : [entries : TablesOfLen(SdkFull, MaxSlots)]]

\* a call about to start; after and during record whether another analysis
\* had finished, or was running, when this one was entered
NewCall(in) ==
    [swilib |-> in.swilib, sdklib |-> in.sdklib, frame |-> NotCalled,
     after |-> FALSE, during |-> FALSE]

InitConcurrent ==
    /\ config \in [pairs : {<<>>} \cup {<<g>> : g \in Pairs},
                   aliases : NoAliases, reserved : {{}}]
    /\ calls \in [Callers -> {NewCall(in) : in \in CallInputs}]
    /\ swilib = Undefined
    /\ sdklib = Undefined
    /\ call = [pc |-> "unused"]
    /\ parser = NoParser
    /\ vkp = NoText
    /\ blib = NoBlib
    /\ builder = NoBuilder

\* caller c enters analyzeSwilib
CallBegin(c) ==
    /\ calls[c].frame.pc = "call"
    /\ calls' = [calls EXCEPT
          ![c].frame = AnalyzeLocals(config, calls[c].swilib, calls[c].sdklib),
          ![c].after = \E o \in Callers \ {c} : calls[o].frame.pc = "done",
          ![c].during = \E o \in Callers \ {c} : calls[o].frame.pc = "loop"]
    /\ UNCHANGED <<config, swilib, sdklib, call, parser, vkp, blib, builder>>

\* caller c's analysis runs one iteration of its loop
CallIteration(c) ==
    /\ calls[c].frame.pc = "loop"
    /\ calls[c].frame.id < calls[c].frame.maxFunctionId
    /\ LET after == IterationEffect(config, calls[c].swilib, calls[c].sdklib,
                                    calls[c].frame)
       IN  /\ config' = after.config
           /\ calls' = [calls EXCEPT ![c].swilib = after.swilib,
                                     ![c].sdklib = after.sdklib,
                                     ![c].frame = after.call]
    /\ UNCHANGED <<swilib, sdklib, call, parser, vkp, blib, builder>>

\* caller c's analysis returns
CallReturn(c) ==
    /\ calls[c].frame.pc = "loop"
    /\ ~(calls[c].frame.id < calls[c].frame.maxFunctionId)
    /\ calls' = [calls EXCEPT
          ![c].frame = [@ EXCEPT !.pc = "done",
                                 !.result = Some(AnalysisResult(calls[c].frame))]]
    /\ UNCHANGED <<config, swilib, sdklib, call, parser, vkp, blib, builder>>

\* caller c drops the result and prepares another analysis
CallAgain(c) ==
    /\ calls[c].frame.pc = "done"
    /\ \E in \in CallInputs : calls' = [calls EXCEPT ![c] = NewCall(in)]
    /\ UNCHANGED <<config, swilib, sdklib, call, parser, vkp, blib, builder>>

NextConcurrent ==
    \E c \in Callers :
        \/ CallBegin(c)
        \/ CallIteration(c)
        \/ CallReturn(c)
        \/ CallAgain(c)

SpecConcurrent == InitConcurrent /\ [][NextConcurrent]_vars

----------------------------------------------------------------------------
(* sdklib: parseLibraryFromSDK.  The preprocessed header is read match by    *)
(* match of SWI_FUNC_RE; a match is a documentation block or a declaration   *)
(* record `__swi_begin name __swi_end(code, symbol);`.  The text of a        *)
(* documentation block is the record of what the three directive expressions *)
(* and the two indexOf tests find in it; a declaration record carries the    *)
(* header text that lies between the previous match and itself.              *)

\* the matches read from one header
MaxMatches == 3

\* slot codes from here on declare a pointer
PointerCode == 32768

\* slot codes from here up to PointerCode declare the slot code - AliasCode
AliasCode == 16384

swilibPlatforms == {"ELKA", "NSG", "X75", "SG"}

isValidSwilibPlatform(platform) == platform \in swilibPlatforms

\* the text of a documentation block: the list after @platforms, the list
\* after @builtin, the word after @pointer-type, and the group marker in it
Doxygen(platforms, builtin, pointerType, marker) ==
    [platforms |-> platforms, builtin |-> builtin, pointerType |-> pointerType,
     marker |-> marker]

\* a match of SWI_FUNC_RE whose first group (the documentation block) is set
DoxygenMatch(value, file) ==
    [doxygen |-> Some(value), name |-> "", code |-> 0, symbol |-> "",
     file |-> file, gap |-> ""]

\* a match of SWI_FUNC_RE whose other groups (name, code, symbol) are set;
\* gap is the header text between the previous match and this one
DeclarationMatch(name, code, symbol, file, gap) ==
    [doxygen |-> Undefined, name |-> name, code |-> code, symbol |-> symbol,
     file |-> file, gap |-> gap]

\* text.match(/\S/) on the texts of the model
HasNonSpace(text) ==
    CASE text = "" -> FALSE
      [] text = "\n" -> FALSE
      [] OTHER -> TRUE

\* value.indexOf('@{') >= 0 || value.indexOf('@}') >= 0
HasGroupMarker(value) == value.marker \in {"@{", "@}"}

\* the documentation block still attached when a declaration record is read
Attached_AcrossFiles(prevDoxygen, m) ==
    IF ~prevDoxygen.def THEN Undefined
    ELSE IF HasNonSpace(m.gap) THEN Undefined
    ELSE IF HasGroupMarker(prevDoxygen.v.value) THEN Undefined
    ELSE prevDoxygen

Attached(prevDoxygen, m) ==
    IF ~prevDoxygen.def THEN Undefined
    ELSE IF prevDoxygen.v.file # m.file THEN Undefined
    ELSE IF HasNonSpace(m.gap) THEN Undefined
    ELSE IF HasGroupMarker(prevDoxygen.v.value) THEN Undefined
    ELSE prevDoxygen

\* the slot a code declares, without the range of alternate forms
swiNumber_NoAliasRange(code) ==
    IF code >= PointerCode THEN code - PointerCode ELSE code

\* the slot a code declares
swiNumber(code) ==
    IF code >= PointerCode THEN code - PointerCode
    ELSE IF code >= AliasCode THEN code - AliasCode
    ELSE code

isPointer(code) == code >= PointerCode

\* the entry created for a slot declared for the first time
NewSdkEntry(id, name, symbol) ==
    [def |-> TRUE, id |-> id, name |-> name, symbol |-> symbol,
     type |-> "FUNCTION", definitions |-> <<>>, functions |-> <<>>,
     pointers |-> <<>>, aliases |-> <<>>, files |-> <<>>,
     platforms |-> Undefined, builtin |-> Undefined, pointerTo |-> "UNKNOWN"]

\* for (item of items) if (!list.includes(item)) list.push(item)
RECURSIVE PushNew(_, _)
PushNew(list, items) ==
    IF items = <<>> THEN list
    ELSE PushNew(IF Head(items) \in Range(list) THEN list
                 ELSE Append(list, Head(items)),
                 Tail(items))

\* optional ?? []
OrEmpty(optional) == IF optional.def THEN optional.v ELSE <<>>

\* the directives of an attached documentation block: @platforms, else
\* @builtin, else @pointer-type
ApplyDirectives(entry, value) ==
    IF value.platforms.def
    THEN IF \E k \in DOMAIN value.platforms.v :
                ~isValidSwilibPlatform(value.platforms.v[k])
         THEN [thrown |-> Some("Invalid platform"), entry |-> entry]
         ELSE [thrown |-> Undefined,
               entry |-> [entry EXCEPT !.platforms =
                            Some(PushNew(OrEmpty(@), value.platforms.v))]]
    ELSE IF value.builtin.def
    THEN IF \E k \in DOMAIN value.builtin.v :
                ~isValidSwilibPlatform(value.builtin.v[k])
         THEN [thrown |-> Some("Invalid platform"), entry |-> entry]
         ELSE [thrown |-> Undefined,
               entry |-> [entry EXCEPT !.builtin =
                            Some(PushNew(OrEmpty(@), value.builtin.v))]]
    ELSE IF value.pointerType.def
    THEN IF value.pointerType.v \notin {"RAM", "FLASH"}
         THEN [thrown |-> Some("Invalid pointer type"), entry |-> entry]
         ELSE [thrown |-> Undefined,
               entry |-> [entry EXCEPT !.pointerTo = value.pointerType.v]]
    ELSE [thrown |-> Undefined, entry |-> entry]

SdkDefinition(m) == [name |-> m.name, symbol |-> m.symbol, file |-> m.file]

\* the declaration recorded with every function-kind declaration renaming
\* the entry
PushDeclaration_LastFunction(entry, m, pointer) ==
    LET filed == [entry EXCEPT
                    !.files = PushNew(@, <<m.file>>),
                    !.aliases = Append(@, m.symbol),
                    !.definitions = Append(@, SdkDefinition(m))]
    IN  IF pointer
        THEN [filed EXCEPT !.pointers = Append(@, SdkDefinition(m))]
        ELSE [filed EXCEPT !.functions = Append(@, SdkDefinition(m)),
                           !.symbol = m.symbol,
                           !.name = m.name]

\* the declaration recorded in files, aliases, definitions and pointers or
\* functions; the first function-kind declaration names the entry
PushDeclaration(entry, m, pointer) ==
    LET filed == [entry EXCEPT
                    !.files = PushNew(@, <<m.file>>),
                    !.aliases = Append(@, m.symbol),
                    !.definitions = Append(@, SdkDefinition(m))]
    IN  IF pointer
        THEN [filed EXCEPT !.pointers = Append(@, SdkDefinition(m))]
        ELSE LET pushed == [filed EXCEPT
                              !.functions = Append(@, SdkDefinition(m))]
             IN  IF Len(pushed.functions) = 1
                 THEN [pushed EXCEPT !.symbol = pushed.functions[1].symbol,
                                     !.name = pushed.functions[1].name]
                 ELSE pushed

\* name.match(/^[\w\s]+\s(\w+)\s*\(\s*(void)?\s*\)/i) on the names of the model
MatchesGetter(name) ==
    CASE name = "int Foo(void)" -> TRUE
      [] name = "void Bar(int id)" -> FALSE
      [] name = "char *Baz(void)" -> FALSE
      [] OTHER -> FALSE

\* detectSdkEntryType that leaves every entry a function
detectSdkEntryType_AlwaysFunction(entry) == "FUNCTION"

detectSdkEntryType(entry) ==
    IF Len(entry.functions) = 0
    THEN IF MatchesGetter(entry.name) THEN "VALUE" ELSE "POINTER"
    ELSE "FUNCTION"

\* the second loop, on one entry: its type, and RAM for a pointer of unknown
\* memory
TypedEntry(func) ==
    LET type == detectSdkEntryType(func)
    IN  [func EXCEPT !.type = type,
                     !.pointerTo = IF type = "POINTER" /\ @ = "UNKNOWN"
                                   THEN "RAM" ELSE @]

TypedEntries(entries) ==
    [k \in DOMAIN entries |->
        IF entries[k].def THEN TypedEntry(entries[k]) ELSE entries[k]]

\* the locals of parseLibraryFromSDK when its first loop starts, with the
\* number of matches read and the match read last
BuilderLocals ==
    [pc |-> "scanning",
     platform |-> "ELKA",
     entries |-> <<>>,
     prevDoxygen |-> Undefined,
     thrown |-> Undefined,
     matches |-> 0,
     last |-> Undefined]

\* the loop body on a documentation block
onDoxygen(b, m) ==
    [b EXCEPT !.prevDoxygen = Some([value |-> m.doxygen.v, file |-> m.file])]

\* the loop body on a declaration record
onDeclaration(b, m) ==
    LET prev == Attached(b.prevDoxygen, m)
        id == swiNumber(m.code)
        created == IF At(b.entries, id).def THEN At(b.entries, id)
                   ELSE NewSdkEntry(id, m.name, m.symbol)
        directed == IF prev.def THEN ApplyDirectives(created, prev.v.value)
                    ELSE [thrown |-> Undefined, entry |-> created]
    IN  IF directed.thrown.def
        THEN [b EXCEPT !.pc = "thrown", !.thrown = directed.thrown]
        ELSE [b EXCEPT
                !.entries = SetAt(@, id, PushDeclaration(directed.entry, m,
                                                         isPointer(m.code))),
                !.prevDoxygen = Undefined]

----------------------------------------------------------------------------
(* parseLibraryFromSDK, match by match *)

InitBuild ==
    /\ builder = BuilderLocals
    /\ config = Undefined
    /\ swilib = Undefined
    /\ sdklib = Undefined
    /\ call = [pc |-> "unused"]
    /\ calls = NoCalls
    /\ parser = NoParser
    /\ vkp = NoText
    /\ blib = NoBlib

\* the loop body on the match m that SWI_FUNC_RE.exec(header) returns
ReadMatch(b, m) ==
    [(IF m.doxygen.def THEN onDoxygen(b, m) ELSE onDeclaration(b, m))
     EXCEPT !.matches = @ + 1, !.last = Some(m)]

\* SWI_FUNC_RE.exec(header) returns null: the second loop types the entries
\* and the catalog is returned
BuildReturn ==
    /\ builder.pc = "scanning"
    /\ builder' = [builder EXCEPT !.pc = "returned",
                                  !.entries = TypedEntries(@)]
    /\ UNCHANGED <<config, swilib, sdklib, call, calls, parser, vkp, blib>>

\* the declarations of a header: three signatures, and for slots 0 and 1 the
\* plain, the alternate and the pointer code
Signatures ==
    {<<"int Foo(void)", "Foo">>, <<"void Bar(int id)", "Bar">>,
     <<"char *Baz(void)", "Baz">>}

Codes == {1, AliasCode, AliasCode + 1, PointerCode, PointerCode + 1}

CodedDeclarations ==
    {DeclarationMatch(s[1], code, s[2], "swilib/a.h", "") :
        s \in Signatures, code \in Codes}

PointerBlocks ==
    {DoxygenMatch(Doxygen(Undefined, Undefined, Some("FLASH"), ""),
                  "swilib/a.h")}

\* the header goes on with a declaration record
OnCodedDeclaration ==
    /\ builder.pc = "scanning"
    /\ builder.matches < MaxMatches
    /\ \E m \in CodedDeclarations : builder' = ReadMatch(builder, m)
    /\ UNCHANGED <<config, swilib, sdklib, call, calls, parser, vkp, blib>>

\* the header goes on with a documentation block
OnPointerBlock ==
    /\ builder.pc = "scanning"
    /\ builder.matches < MaxMatches
    /\ \E m \in PointerBlocks : builder' = ReadMatch(builder, m)
    /\ UNCHANGED <<config, swilib, sdklib, call, calls, parser, vkp, blib>>

NextCatalog ==
    \/ OnCodedDeclaration
    \/ OnPointerBlock
    \/ BuildReturn

\* parseLibraryFromSDK on headers that declare slots under every code
SpecCatalog == InitBuild /\ [][NextCatalog]_vars

\* documentation blocks with every combination of the three directives, with
\* a group marker, with an unknown platform or memory, and from another file
DirectiveBlocks ==
    {DoxygenMatch(Doxygen(p, b, t, ""), "swilib/a.h") :
        p \in {Undefined, Some(<<"ELKA">>)},
        b \in {Undefined, Some(<<"SG">>)},
        t \in {Undefined, Some("FLASH")}}
    \cup
    {DoxygenMatch(Doxygen(Some(<<"NSG", "ELKA">>), Undefined, Undefined, "@{"),
                  "swilib/a.h"),
     DoxygenMatch(Doxygen(Undefined, Some(<<"SG">>), Undefined, "@}"),
                  "swilib/a.h"),
     DoxygenMatch(Doxygen(Some(<<"ELKA", "C65">>), Undefined, Undefined, ""),
                  "swilib/a.h"),
     DoxygenMatch(Doxygen(Undefined, Undefined, Some("ROM"), ""),
                  "swilib/a.h"),
     DoxygenMatch(Doxygen(Some(<<"NSG">>), Undefined, Undefined, ""),
                  "swilib/b.h")}

\* declarations right after the previous match, after white space, after
\* other text, and in another file
PlacedDeclarations ==
    {DeclarationMatch("int Foo(void)", 0, "Foo", "swilib/a.h", ""),
     DeclarationMatch("int Foo(void)", 0, "Foo", "swilib/a.h", "\n"),
     DeclarationMatch("int Foo(void)", 0, "Foo", "swilib/a.h", "#define X"),
     DeclarationMatch("int Foo(void)", 0, "Foo", "swilib/b.h", ""),
     DeclarationMatch("char *Baz(void)", PointerCode + 1, "Baz", "swilib/a.h",
                      "")}

\* the header goes on with a documentation block
OnDirectiveBlock ==
    /\ builder.pc = "scanning"
    /\ builder.matches < MaxMatches
    /\ \E m \in DirectiveBlocks : builder' = ReadMatch(builder, m)
    /\ UNCHANGED <<config, swilib, sdklib, call, calls, parser, vkp, blib>>

\* the header goes on with a declaration record
OnPlacedDeclaration ==
    /\ builder.pc = "scanning"
    /\ builder.matches < MaxMatches
    /\ \E m \in PlacedDeclarations : builder' = ReadMatch(builder, m)
    /\ UNCHANGED <<config, swilib, sdklib, call, calls, parser, vkp, blib>>

NextBlocks ==
    \/ OnDirectiveBlock
    \/ OnPlacedDeclaration
    \/ BuildReturn

\* parseLibraryFromSDK on headers with documentation blocks
SpecBlocks == InitBuild /\ [][NextBlocks]_vars

----------------------------------------------------------------------------
(* What the claims speak of *)

Done == call.pc = "done"

\* the returned SwilibAnalysisResult
Result == call.result.v

HasSdk(id) == At(sdklib.entries, id).def

HasSwi(id) == At(swilib.entries, id).def

\* max(catalog table length, patch table length)
TableRange == 0 .. (Max(Len(sdklib.entries), Len(swilib.entries)) - 1)

InErrors(id) == id \in DOMAIN Result.errors

InMissing(id) == id \in Range(Result.missing)

\* slots reported twice: an Error verdict and a place in the missing list
BothVerdicts == {id \in TableRange : InErrors(id) /\ InMissing(id)}

\* catalog-only slots with no verdict at all
NoVerdict ==
    {id \in TableRange : HasSdk(id) /\ ~HasSwi(id) /\ ~InErrors(id) /\ ~InMissing(id)}

----------------------------------------------------------------------------
(* C1 *)

\* C1 as stated: for every analysis run the returned statistics satisfy
\* good + bad + missing = total.
C1_GoodBadMissingIsTotal ==
    Done => Result.stat.good + Result.stat.bad + Result.stat.missing
                = Result.stat.total

\* C1 amended: good + bad + missing = total + b - n, where b counts the slots
\* that are both in the errors map and in the missing list and n counts the
\* catalog-only slots that are in neither; every slot in neither is a
\* catalog-only slot whose entry carries a reservation (builtin) list.
C1_StatIdentity ==
    Done =>
        /\ Result.stat.good + Result.stat.bad + Result.stat.missing
              = Result.stat.total + Cardinality(BothVerdicts) - Cardinality(NoVerdict)
        /\ \A id \in NoVerdict : At(sdklib.entries, id).builtin.def

C1_Witness ==
    /\ Done
    /\ BothVerdicts # {}
    /\ NoVerdict # {}
    /\ Result.stat.good > 0

----------------------------------------------------------------------------
(* C2 *)

\* C2: for every analysis run total + unused = max(catalog table length,
\* patch table length); total counts the slots that have a catalog entry or a
\* patch entry and unused counts the slots that have neither.
C2_TotalPlusUnused ==
    Done =>
        /\ Result.stat.total + Result.stat.unused
              = Max(Len(sdklib.entries), Len(swilib.entries))
        /\ Result.stat.total
              = Cardinality({id \in TableRange : HasSdk(id) \/ HasSwi(id)})
        /\ Result.stat.unused
              = Cardinality({id \in TableRange : ~HasSdk(id) /\ ~HasSwi(id)})

C2_Witness ==
    /\ Done
    /\ Len(swilib.entries) > Len(sdklib.entries)
    /\ Result.stat.unused > 0
    /\ Result.stat.total > 1

----------------------------------------------------------------------------
(* C3 *)

\* C3: in the result of any analysis no slot is both in the missing list and
\* a key of the errors map (and a slot counted good, a patched slot with a
\* catalog entry and no error, is in neither).
C3_VerdictsExclusive ==
    Done => \A id \in TableRange : ~(InErrors(id) /\ InMissing(id))

----------------------------------------------------------------------------
(* The rules of the analyzer, stated on its inputs *)

SdkAt(id) == At(sdklib.entries, id)

SwiAt(id) == At(swilib.entries, id)

\* the configured groups that contain the slot
GroupsOf(id) == {k \in DOMAIN config.pairs : id \in Range(config.pairs[k])}

\* the slot's pairing group: the last configured group that contains it
GroupOf(id) == config.pairs[CHOOSE k \in GroupsOf(id) : \A j \in GroupsOf(id) : j <= k]

\* the first-listed member of the slot's group is patched and the slot is
\* not, or carries another value
PairMismatch(id) ==
    /\ GroupsOf(id) # {}
    /\ HasSwi(GroupOf(id)[1])
    /\ (~HasSwi(id) \/ SwiAt(GroupOf(id)[1]).value # SwiAt(id).value)

\* reserved on the analysed platform by the catalog or by the configuration
ReservedHere(id) ==
    \/ /\ HasSdk(id)
       /\ SdkAt(id).builtin.def
       /\ \E k \in DOMAIN SdkAt(id).builtin.v : SdkAt(id).builtin.v[k] = swilib.platform
    \/ id \in config.reserved

\* the catalog restricts the platforms and leaves the analysed one out
WrongPlatform(id) ==
    /\ HasSdk(id)
    /\ SdkAt(id).platforms.def
    /\ \A k \in DOMAIN SdkAt(id).platforms.v : SdkAt(id).platforms.v[k] # swilib.platform

NameMismatch(id) == ~isSameFunctions(config, SwiAt(id), SdkAt(id))

ErrorKind(id) == Result.errors[id].kind

----------------------------------------------------------------------------
(* C4 *)

\* C4 as stated: for any slot whose catalog entry has kind Function and whose
\* patch entry has valueKind Value, the error recorded for the slot is the
\* type-mismatch error.
C4_FunctionValueIsTypeMismatch ==
    Done => \A id \in TableRange :
        (HasSdk(id) /\ HasSwi(id) /\ SdkAt(id).type = "FUNCTION"
            /\ SwiAt(id).type = "VALUE")
        => (InErrors(id) /\ ErrorKind(id) = "Type mismatch")

\* C4 amended: such a slot always gets an Error verdict and is never good;
\* the error is the type-mismatch error exactly when no pair-mismatch,
\* reserved, wrong-platform or name-mismatch error was recorded for the slot
\* before the type check.
C4_FunctionValueIsError ==
    Done => \A id \in TableRange :
        (HasSdk(id) /\ HasSwi(id) /\ SdkAt(id).type = "FUNCTION"
            /\ SwiAt(id).type = "VALUE")
        => /\ InErrors(id)
           /\ ErrorKind(id) = "Type mismatch"
                <=> ~(PairMismatch(id) \/ ReservedHere(id) \/ WrongPlatform(id)
                        \/ NameMismatch(id))
           /\ ErrorKind(id) = "Type mismatch"
                => /\ Result.errors[id].swilib = "VALUE"
                   /\ Result.errors[id].sdk = "FUNCTION"

C4_Witness ==
    /\ Done
    /\ \E id \in TableRange :
        /\ HasSdk(id) /\ HasSwi(id)
        /\ SdkAt(id).type = "FUNCTION" /\ SwiAt(id).type = "VALUE"
        /\ InErrors(id) /\ ErrorKind(id) = "Type mismatch"
    /\ \E id \in TableRange :
        /\ HasSdk(id) /\ HasSwi(id)
        /\ SdkAt(id).type = "FUNCTION" /\ SwiAt(id).type = "VALUE"
        /\ InErrors(id) /\ ErrorKind(id) = "Address must be equal with"

----------------------------------------------------------------------------
(* C5 *)

\* two distinct slots a, b are configured as one pairing group, both have a
\* catalog entry, both are patched, with different values
PairedAndDifferent(a, b) ==
    /\ a # b
    /\ \E k \in DOMAIN config.pairs : config.pairs[k] \in {<<a, b>>, <<b, a>>}
    /\ HasSdk(a) /\ HasSdk(b)
    /\ HasSwi(a) /\ HasSwi(b)
    /\ SwiAt(a).value # SwiAt(b).value

\* C5 as stated: then b's verdict is the 'must equal sibling' error,
\* whichever of a and b is listed first in the group.
C5_SiblingError ==
    Done => \A a, b \in TableRange :
        PairedAndDifferent(a, b)
        => (InErrors(b) /\ ErrorKind(b) = "Address must be equal with")

\* C5 amended: when b's pairing group (the last configured group containing
\* b) lists a first, b's verdict is an Error: the 'must equal sibling' error
\* naming a and a's value, unless b is reserved on the platform, not
\* available on the platform or fails the name check, and then that rule's
\* error stands in its place.  When b itself is listed first, b receives no
\* pair error.
C5_SiblingErrorWhenFirst ==
    Done => \A a, b \in TableRange :
        PairedAndDifferent(a, b)
        => /\ GroupOf(b)[1] = a
              => /\ InErrors(b)
                 /\ ErrorKind(b) =
                      IF ReservedHere(b)
                      THEN "Invalid function (Reserved by ELFLoader)"
                      ELSE IF WrongPlatform(b)
                      THEN "Functions is not available on this platform."
                      ELSE IF NameMismatch(b)
                      THEN "Invalid function"
                      ELSE "Address must be equal with"
                 /\ ErrorKind(b) = "Address must be equal with"
                      => /\ Result.errors[b].slot = a
                         /\ Result.errors[b].value = SwiAt(a).value
           /\ GroupOf(b)[1] = b
              => ~(InErrors(b) /\ ErrorKind(b) = "Address must be equal with")

C5_Witness ==
    /\ Done
    /\ \E a, b \in TableRange :
        /\ PairedAndDifferent(a, b)
        /\ GroupOf(b)[1] = a
        /\ a > b
        /\ InErrors(b) /\ ErrorKind(b) = "Address must be equal with"

----------------------------------------------------------------------------
(* C6 *)

ReservedKind == "Invalid function (Reserved by ELFLoader)"

\* C6 as stated: whenever a slot is reserved on the analysed platform, by
\* its catalog entry's reservation list or by the configured reserved
\* ranges, and the patch table has an entry for it, the slot's verdict is the
\* 'reserved' error.
C6_ReservedPatched ==
    Done => \A id \in TableRange :
        (HasSwi(id) /\ ReservedHere(id))
        => (InErrors(id) /\ ErrorKind(id) = ReservedKind)

\* C6 amended: the same for every such slot that has a catalog entry (a
\* patched slot in a configured reserved range that has no catalog entry
\* gets the 'unknown slot' error); the 'reserved' verdict stands even when
\* the name and type are valid and even when a pair error was recorded.
C6_ReservedPatchedInCatalog ==
    Done => \A id \in TableRange :
        /\ (HasSdk(id) /\ HasSwi(id) /\ ReservedHere(id))
            => /\ InErrors(id)
               /\ ErrorKind(id) = ReservedKind
               /\ Result.errors[id].symbol = SwiAt(id).symbol
        /\ (~HasSdk(id) /\ HasSwi(id) /\ ReservedHere(id))
            => (InErrors(id) /\ ErrorKind(id) = "Unknown function")

C6_Witness ==
    /\ Done
    /\ \E id \in TableRange :
        /\ HasSdk(id) /\ HasSwi(id)
        /\ id \in config.reserved
        /\ ~SdkAt(id).builtin.def
        /\ ~NameMismatch(id) /\ ~WrongPlatform(id) /\ PairMismatch(id)
        /\ ErrorKind(id) = ReservedKind
    /\ \E id \in TableRange :
        /\ HasSdk(id) /\ HasSwi(id)
        /\ id \notin config.reserved
        /\ SdkAt(id).builtin.def
        /\ ~NameMismatch(id)
        /\ ErrorKind(id) = ReservedKind

----------------------------------------------------------------------------
(* C7 *)

\* the ids 0 .. n - 1 in order
FirstIds(n) == [k \in 1 .. n |-> k - 1]

\* C7: analyzeSwilib never aborts on a finding: while it runs it has a next
\* step and has run the loop body once for each id below the loop counter,
\* which never passes max(catalog length, patch length); when it has
\* returned it has run the body exactly once for every id of
\* [0, max(catalog length, patch length)), in order, and has a result,
\* however many slots carry errors.
C7_VisitsEverySlotOnce ==
    /\ call.pc \in {"call", "loop", "done"}
    /\ call.pc = "call" => ENABLED NextAnalysis
    /\ call.pc = "loop" =>
        /\ ENABLED NextAnalysis
        /\ call.id <= Max(Len(sdklib.entries), Len(swilib.entries))
        /\ call.visited = FirstIds(call.id)
    /\ Done =>
        /\ call.visited = FirstIds(Max(Len(sdklib.entries), Len(swilib.entries)))
        /\ call.result.def
        /\ \A id \in TableRange : HasSwi(id) /\ ~HasSdk(id) => InErrors(id)

C7_Witness ==
    /\ Done
    /\ Len(call.visited) = MaxSlots
    /\ Cardinality(DOMAIN Result.errors) = MaxSlots

----------------------------------------------------------------------------
(* C8 *)

\* C8: no step of analyzeSwilib changes the catalog table, the patch table
\* or the configuration (aliases, pairing groups, reserved set); the errors
\* map, the missing list and the statistics are locals of the call.
C8_InputsUnchanged ==
    [][config' = config /\ swilib' = swilib /\ sdklib' = sdklib]_vars

C8_Witness ==
    /\ Done
    /\ config.pairs # <<>>
    /\ Cardinality(DOMAIN Result.errors) > 1
    /\ Len(Result.missing) > 0

----------------------------------------------------------------------------
(* C9 *)

CallDone(c) == calls[c].frame.pc = "done"

SameInputs(c, d) ==
    calls[c].swilib = calls[d].swilib /\ calls[c].sdklib = calls[d].sdklib

\* C9: analyses hold no cross-call state: two analyses of the same patch
\* table and catalog table under the shared configuration return the same
\* result, whether an analysis ran alone, after another one, or interleaved
\* with another one.
C9_SameInputsSameResult ==
    \A c, d \in Callers :
        (CallDone(c) /\ CallDone(d) /\ SameInputs(c, d))
        => calls[c].frame.result = calls[d].frame.result

C9_Witness ==
    \E c, d \in Callers :
        /\ c # d
        /\ CallDone(c) /\ CallDone(d) /\ SameInputs(c, d)
        /\ ~calls[c].after /\ ~calls[c].during
        /\ calls[d].during
        /\ config.pairs # <<>>
        /\ DOMAIN calls[c].frame.result.v.errors # {}
        /\ Len(calls[c].frame.result.v.missing) > 1

----------------------------------------------------------------------------
(* C10 *)

\* C10: a data directive that assigns a slot an earlier accepted data
\* directive has assigned is a fatal parse error: no step of the parser that
\* goes on parsing, or returns, replaces an entry of the table.
C10_NoReassignment ==
    [][(parser.pc = "parsing" /\ parser'.pc # "thrown")
        => \A id \in Slots :
              At(parser.entries, id).def
              => At(parser'.entries, id) = At(parser.entries, id)]_vars

----------------------------------------------------------------------------
(* C11 *)

Parsing == parser.pc = "parsing"

ThrownWith(p, message) == p.pc = "thrown" /\ p.thrown = Some(message)

\* the step hands the parser a directive of the given kind
Reads(kind) == Parsing /\ parser'.pc # "returned" /\ parser'.last = kind

\* an offset directive, of any value, has been read: every offset directive
\* the parser survives sets offset or end
OffsetSeen == parser.offset.def \/ parser.end

\* C11 as stated: once one offset directive has been seen, any further
\* offset directive raises the 'duplicated offset' error, wherever it appears.
C11_FurtherOffsetThrows ==
    [][(OffsetSeen /\ (Reads("offset") \/ Reads("zero")))
        => ThrownWith(parser', "Duplicated offset")]_vars

\* C11 amended: once a non-zero offset directive has been accepted, any
\* further non-zero offset directive raises 'duplicated offset', wherever it
\* appears (before the first data directive, between data directives, after a
\* terminator); a zero-valued offset directive is the terminator and never
\* raises, and a non-zero offset directive that follows terminators only is
\* accepted as the offset.
C11_FurtherNonZeroOffsetThrows ==
    [][ /\ (parser.offset.def /\ Reads("offset"))
            => /\ ThrownWith(parser', "Duplicated offset")
               /\ parser'.offset = parser.offset
               /\ parser'.entries = parser.entries
        /\ Reads("zero")
            => /\ parser'.pc = "parsing"
               /\ parser'.end
               /\ parser'.offset = parser.offset
        /\ (~parser.offset.def /\ Reads("offset"))
            => (parser'.pc = "parsing" /\ parser'.offset.def)]_vars

C11_Witness ==
    /\ ThrownWith(parser, "Duplicated offset")
    /\ parser.last = "offset"
    /\ parser.terminated
    /\ parser.entries # <<>>

----------------------------------------------------------------------------
(* C12 *)

\* C12: after a zero-valued offset directive (the terminator) has been
\* processed, every later data directive raises the 'entry after end' error,
\* whatever directives came in between, and no step adds or replaces an
\* entry of the table.
C12_NoEntryAfterEnd ==
    [][parser.terminated
        => /\ (Reads("data") => ThrownWith(parser', "Entry after end"))
           /\ parser'.entries = parser.entries
           /\ parser'.terminated]_vars

C12_Witness ==
    /\ ThrownWith(parser, "Entry after end")
    /\ parser.last = "data"
    /\ parser.offset.def
    /\ parser.entries # <<>>

----------------------------------------------------------------------------
(* C13 *)

\* the valueKind the table of the claim gives a value, on its top byte
KindOf(value) ==
    IF value = U32(65535, 65535) THEN "UNDEFINED"
    ELSE IF value.hi \div 256 \in 160 .. 167 THEN "POINTER_TO_FLASH"
    ELSE IF value.hi \div 256 \in 168 .. 175 THEN "POINTER_TO_RAM"
    ELSE "VALUE"

\* C13: the valueKind of a patch entry is a total function of its 32-bit
\* value: 0xFFFFFFFF gives Undefined; otherwise a top byte in [0xA0, 0xA8)
\* gives PointerToFlash, a top byte in [0xA8, 0xB0) gives PointerToRam and
\* every other value gives Value; 0xA0000000 is PointerToFlash, 0xA8000000 is
\* PointerToRam, 0x00001234 is Value.
C13_ValueKind ==
    \A id \in Slots :
        LET e == At(parser.entries, id) IN
        e.def =>
            /\ e.type \in SwiValueTypes
            /\ e.type = KindOf(e.value)
            /\ e.value = U32(65535, 65535) => e.type = "UNDEFINED"
            /\ e.value = U32(40960, 0) => e.type = "POINTER_TO_FLASH"
            /\ e.value = U32(43008, 0) => e.type = "POINTER_TO_RAM"
            /\ e.value = U32(0, 4660) => e.type = "VALUE"

C13_Witness ==
    /\ parser.pc = "returned"
    /\ At(parser.entries, 0).def /\ At(parser.entries, 0).value = U32(43007, 65535)
    /\ At(parser.entries, 0).type = "POINTER_TO_FLASH"
    /\ At(parser.entries, 1).def /\ At(parser.entries, 1).value = U32(43008, 0)
    /\ At(parser.entries, 1).type = "POINTER_TO_RAM"

----------------------------------------------------------------------------
(* C14 *)

\* the second parse has returned
Reparsed == vkp.pc = "done" /\ vkp.parser.pc = "returned"

First(id) == At(parser.result.v.entries, id)

Second(id) == At(vkp.parser.result.v.entries, id)

\* C14 as stated: for every valid patch text, parsing it, serializing the
\* parsed table and parsing the output again ends with the slot-to-value
\* mapping of the first parse: every slot of the first parse is present with
\* the same value, and no slot is added.
C14_RoundTrip ==
    /\ call.pc = "done" /\ vkp.pc = "reading" => vkp.parser.pc # "thrown"
    /\ Reparsed =>
        \A id \in Slots :
            /\ First(id).def <=> Second(id).def
            /\ First(id).def => Second(id).value = First(id).value

\* C14 amended: the second parse never fails, adds no slot and changes no
\* value; it keeps exactly the slots of the first parse that have a catalog
\* entry and no error in the analysis serializeSwilib runs.  A slot with an
\* error (an unknown slot, a type mismatch, ...) is written as a comment
\* and is missing after the round trip.
C14_RoundTripOfGoodSlots ==
    /\ call.pc = "done" /\ vkp.pc = "reading" => vkp.parser.pc # "thrown"
    /\ Reparsed =>
        \A id \in Slots :
            /\ Second(id).def <=>
                  (First(id).def /\ HasSdk(id) /\ ~InErrors(id))
            /\ Second(id).def => Second(id).value = First(id).value

C14_Witness ==
    /\ Reparsed
    /\ \E id \in Slots : Second(id).def /\ Second(id).value = FlashA
    /\ \E id \in Slots : Second(id).def /\ Second(id).value = Num
    /\ \E id \in Slots : First(id).def /\ ~Second(id).def

----------------------------------------------------------------------------
(* C15 *)

\* the four bytes of the blob at [4 i, 4 i + 4)
BlibWord(i) ==
    <<blib.buffer[4 * i + 1], blib.buffer[4 * i + 2], blib.buffer[4 * i + 3],
      blib.buffer[4 * i + 4]>>

\* C15: getSwiBlib returns a blob of exactly 4096 slots of 4 bytes (16384
\* bytes): for every i in [0, 4096), bytes [4i, 4i + 4) hold the
\* little-endian 32-bit value of patch slot i when that slot has a value,
\* and 0xFFFFFFFF otherwise.
C15_BlibLayout ==
    blib.pc = "done" =>
        /\ Len(blib.buffer) = 16384
        /\ \A i \in 0 .. 4095 :
              LET word == BlibWord(i) IN
              /\ \A k \in 1 .. 4 : word[k] \in 0 .. 255
              /\ readUInt32LE(word) =
                    IF SwiAt(i).def THEN SwiAt(i).value ELSE Unset

C15_Witness ==
    /\ blib.pc = "done"
    /\ SwiAt(0).def /\ BlibWord(0) = <<0, 16, 0, 160>>
    /\ ~SwiAt(1).def /\ BlibWord(1) = <<255, 255, 255, 255>>
    /\ SwiAt(2).def /\ BlibWord(2) = <<52, 18, 0, 0>>
    /\ SwiAt(4095).def /\ BlibWord(4095) = <<0, 32, 0, 160>>
    /\ SwiAt(4096).def

----------------------------------------------------------------------------
(* C16 *)

\* a is a member of b's pairing group
SameGroup(a, b) == GroupsOf(b) # {} /\ a \in Range(GroupOf(b))

\* the slot is patched, has a catalog entry, and none of the reserved,
\* wrong-platform and name rules applies to it
PassesEarlyRules(id) ==
    /\ HasSdk(id) /\ HasSwi(id)
    /\ ~ReservedHere(id) /\ ~WrongPlatform(id) /\ ~NameMismatch(id)

\* C16: when a patched slot that passed the unknown, reserved, platform and
\* name rules has a value whose top nibble is 0xA, and a lower-numbered slot
\* of the patch table carries exactly the same value, and the two slots are
\* not members of the same configured pairing group, the later slot's
\* verdict is the 'address already used' error naming the earlier slot.
C16_DuplicateAddress ==
    Done => \A a, b \in TableRange :
        (/\ a < b
         /\ PassesEarlyRules(b)
         /\ HasSwi(a)
         /\ TopNibble(SwiAt(b).value) = 10
         /\ SwiAt(a).value = SwiAt(b).value
         /\ ~SameGroup(a, b))
        => /\ InErrors(b)
           /\ ErrorKind(b) = "Address already used for"
           /\ HasSwi(Result.errors[b].slot)
           /\ Result.errors[b].slot < b
           /\ SwiAt(Result.errors[b].slot).value = SwiAt(b).value

----------------------------------------------------------------------------
(* C17 *)

\* the catalog entry marks the slot reserved for the analysed platform
BuiltinHere(id) ==
    /\ SdkAt(id).builtin.def
    /\ \E k \in DOMAIN SdkAt(id).builtin.v : SdkAt(id).builtin.v[k] = swilib.platform

\* C17: a slot that has a catalog entry and no patch entry is recorded in
\* the missing list if and only if its catalog entry is not marked reserved
\* for the platform being analysed; a slot reserved only on other platforms
\* is still recorded as missing.
C17_MissingUnlessReservedHere ==
    Done => \A id \in TableRange :
        (HasSdk(id) /\ ~HasSwi(id)) => (InMissing(id) <=> ~BuiltinHere(id))

----------------------------------------------------------------------------
(* C18 *)

\* the valueKinds the catalog kind admits
Admits(kind) ==
    CASE kind = "FUNCTION" -> {"POINTER_TO_FLASH"}
      [] kind = "POINTER" -> {"POINTER_TO_FLASH", "POINTER_TO_RAM"}
      [] kind = "VALUE" -> {"VALUE"}
      [] OTHER -> {}

Compatible(id) ==
    SwiAt(id).type = "UNDEFINED" \/ SwiAt(id).type \in Admits(SdkAt(id).type)

\* the slots counted good: patched, in the catalog, without an error
GoodSlots == {id \in TableRange : HasSdk(id) /\ HasSwi(id) /\ ~InErrors(id)}

\* C18: a patched slot with a catalog entry is counted good only if its
\* valueKind is Undefined or is admitted by the catalog kind (Function admits
\* PointerToFlash, Pointer admits PointerToFlash and PointerToRam, Value
\* admits Value); a slot with an incompatible, non-Undefined valueKind always
\* ends with an Error verdict.
C18_GoodOnlyIfCompatible ==
    Done =>
        /\ Result.stat.good = Cardinality(GoodSlots)
        /\ \A id \in GoodSlots : Compatible(id)
        /\ \A id \in TableRange :
              (HasSdk(id) /\ HasSwi(id) /\ ~Compatible(id)) => InErrors(id)

C18_Witness ==
    /\ Done
    /\ \E id \in GoodSlots :
          SdkAt(id).type = "POINTER" /\ SwiAt(id).type = "POINTER_TO_RAM"
    /\ \E id \in GoodSlots : SwiAt(id).type = "UNDEFINED"
    /\ \E id \in TableRange :
          /\ HasSdk(id) /\ HasSwi(id)
          /\ SdkAt(id).type = "VALUE" /\ SwiAt(id).type = "POINTER_TO_FLASH"
          /\ InErrors(id) /\ ErrorKind(id) = "Type mismatch"

----------------------------------------------------------------------------
(* C19 *)

\* the verdict of a slot with a catalog entry when the first applicable rule
\* of pair-mismatch, reserved, wrong-platform, name-mismatch decides
FirstRule(id) ==
    IF PairMismatch(id) THEN "Address must be equal with"
    ELSE IF ReservedHere(id) THEN ReservedKind
    ELSE IF WrongPlatform(id) THEN "Functions is not available on this platform."
    ELSE IF NameMismatch(id) THEN "Invalid function"
    ELSE "none"

\* C19: the per-slot rules are evaluated in the order unknown-slot,
\* pair-mismatch, reserved, wrong-platform, name-mismatch and the first
\* applicable rule determines the verdict: a patched slot to which the
\* pair-mismatch rule applies keeps the 'must equal sibling' verdict even
\* when the reserved, wrong-platform or name-mismatch rule also applies.
C19_FirstRuleWins ==
    Done => \A id \in TableRange :
        (HasSdk(id) /\ HasSwi(id) /\ FirstRule(id) # "none")
        => (InErrors(id) /\ ErrorKind(id) = FirstRule(id))

----------------------------------------------------------------------------
(* C20 *)

\* the patched slots without a catalog entry
UnknownSlots == {id \in TableRange : HasSwi(id) /\ ~HasSdk(id)}

\* C20: every slot that has a patch entry but no catalog entry gets the
\* 'unknown slot' error, is counted in total and in bad, and is subject to
\* no other rule: it is never in the missing list and never counted good,
\* whatever the pairing groups and the reserved set say about it.
C20_UnknownSlot ==
    Done =>
        /\ \A id \in UnknownSlots :
              /\ InErrors(id)
              /\ Result.errors[id] = ErrUnknownFunction(SwiAt(id).symbol)
              /\ ~InMissing(id)
        /\ Result.stat.total =
              Cardinality({id \in TableRange : HasSdk(id)} \cup UnknownSlots)
        /\ Result.stat.bad =
              Cardinality({id \in TableRange : HasSdk(id) /\ InErrors(id)}
                            \cup UnknownSlots)
        /\ Result.stat.good = Cardinality(GoodSlots)
        /\ GoodSlots \cap UnknownSlots = {}

C20_Witness ==
    /\ Done
    /\ \E id \in UnknownSlots :
          /\ id \in config.reserved
          /\ GroupsOf(id) # {}
          /\ HasSwi(GroupOf(id)[1])
          /\ SwiAt(GroupOf(id)[1]).value # SwiAt(id).value
    /\ GoodSlots # {}

----------------------------------------------------------------------------
(* C21 *)

\* the slot reaches the name check: patched, in the catalog, not reserved
\* and not excluded on the platform
ReachesNameCheck(id) ==
    HasSdk(id) /\ HasSwi(id) /\ ~ReservedHere(id) /\ ~WrongPlatform(id)

\* the configured alias list of the slot
ConfiguredAliases(id) ==
    IF id \in DOMAIN config.aliases THEN Range(config.aliases[id]) ELSE {}

HasNameError(id) == InErrors(id) /\ ErrorKind(id) = "Invalid function"

\* C21 as stated: a patched slot that reaches the name check gets the
\* 'invalid function name' error if and only if its symbol does not equal
\* the catalog symbol, is not in the catalog entry's alias set and is not in
\* the configured alias list of the slot.
C21_NameErrorIffNoName ==
    Done => \A id \in TableRange :
        ReachesNameCheck(id) =>
            (HasNameError(id) <=>
                /\ SwiAt(id).symbol # SdkAt(id).symbol
                /\ SwiAt(id).symbol \notin Range(SdkAt(id).aliases)
                /\ SwiAt(id).symbol \notin ConfiguredAliases(id))

\* the lower-case forms of a set of names
LowerCased(names) == {toLowerCase(n) : n \in names}

\* C21 amended: the same, with the two alias lists compared without regard
\* to letter case (the catalog symbol itself is compared exactly).
C21_NameErrorIffNoNameAnyCase ==
    Done => \A id \in TableRange :
        ReachesNameCheck(id) =>
            (HasNameError(id) <=>
                /\ SwiAt(id).symbol # SdkAt(id).symbol
                /\ toLowerCase(SwiAt(id).symbol)
                      \notin LowerCased(Range(SdkAt(id).aliases))
                /\ toLowerCase(SwiAt(id).symbol)
                      \notin LowerCased(ConfiguredAliases(id)))

C21_Witness ==
    /\ Done
    /\ \E id \in TableRange :
          /\ ReachesNameCheck(id) /\ SwiAt(id).symbol = "BAR"
          /\ "Bar" \in Range(SdkAt(id).aliases) /\ ~InErrors(id)
    /\ \E id \in TableRange :
          /\ ReachesNameCheck(id) /\ SwiAt(id).symbol = "Baz"
          /\ "Baz" \in ConfiguredAliases(id) /\ ~InErrors(id)
    /\ \E id \in TableRange :
          /\ ReachesNameCheck(id) /\ SwiAt(id).symbol = "Baz"
          /\ HasNameError(id)

----------------------------------------------------------------------------
(* C22 *)

NotAvailableKind == "Functions is not available on this platform."

\* C22: a patched slot whose catalog entry has an allowed-platform list that
\* does not contain the analysed platform, and which is not reserved, gets
\* the 'not available on this platform' error; a slot whose catalog entry
\* has no allowed-platform list never gets that error.
C22_WrongPlatform ==
    Done => \A id \in TableRange :
        /\ (HasSdk(id) /\ HasSwi(id) /\ WrongPlatform(id) /\ ~ReservedHere(id))
            => (InErrors(id) /\ Result.errors[id] = ErrNotAvailable)
        /\ (HasSdk(id) /\ ~SdkAt(id).platforms.def)
            => ~(InErrors(id) /\ ErrorKind(id) = NotAvailableKind)

C22_Witness ==
    /\ Done
    /\ \E id \in TableRange :
          /\ HasSdk(id) /\ HasSwi(id) /\ WrongPlatform(id) /\ ~ReservedHere(id)
          /\ PairMismatch(id) /\ NameMismatch(id)
          /\ ErrorKind(id) = NotAvailableKind
    /\ \E id \in TableRange :
          /\ HasSdk(id) /\ HasSwi(id) /\ ~SdkAt(id).platforms.def
          /\ InErrors(id)

----------------------------------------------------------------------------
(* C23 *)

\* the data directive the step hands over
ReadData == parser'.data.v

\* C23: parseSwilibPatch accepts a data directive only if an offset has
\* been declared, the written value is exactly 4 bytes and the address is a
\* multiple of 4; each violation is a fatal parse error that leaves the table
\* as it was; an accepted directive creates the entry at slot index
\* address / 4, with that index as its id and the little-endian value of the
\* four bytes, and touches no other slot.
C23_DataDirective ==
    [][Reads("data") =>
        /\ (\/ ~parser.offset.def
            \/ Len(ReadData.buffer) # 4
            \/ ReadData.address % 4 # 0)
           => /\ parser'.pc = "thrown"
              /\ parser'.thrown.def
              /\ parser'.entries = parser.entries
        /\ parser'.pc = "parsing"
           => /\ parser.offset.def
              /\ Len(ReadData.buffer) = 4
              /\ ReadData.address % 4 = 0
              /\ At(parser'.entries, ReadData.address \div 4).def
              /\ At(parser'.entries, ReadData.address \div 4).id
                    = ReadData.address \div 4
              /\ At(parser'.entries, ReadData.address \div 4).value
                    = readUInt32LE(ReadData.buffer)
              /\ \A id \in Slots \ {ReadData.address \div 4} :
                    At(parser'.entries, id) = At(parser.entries, id)]_vars

C23_Witness ==
    /\ parser.pc = "parsing"
    /\ parser.last = "data"
    /\ parser.data.v.address = 8
    /\ Len(parser.entries) = 3
    /\ ~At(parser.entries, 0).def
    /\ At(parser.entries, 1).def
    /\ At(parser.entries, 2).id = 2 /\ At(parser.entries, 2).value = FlashA

----------------------------------------------------------------------------
(* What the claims about the catalog builder speak of *)

\* the step reads a match of SWI_FUNC_RE
Scanned == builder'.matches = builder.matches + 1

\* the match the step reads
Read == builder'.last.v

\* the step reads a declaration record and the loop goes on
Declares == Scanned /\ ~Read.doxygen.def /\ builder'.pc = "scanning"

\* the slot a code stands for, and whether it declares a pointer
ClaimedSlot(code) ==
    IF code >= PointerCode THEN code - PointerCode
    ELSE IF code >= AliasCode /\ code < PointerCode THEN code - AliasCode
    ELSE code

EntryBefore(id) == At(builder.entries, id)

EntryAfter(id) == At(builder'.entries, id)

\* how many declarations of a list the slot had before the step
Before(id, list) ==
    IF EntryBefore(id).def THEN Len(EntryBefore(id)[list]) ELSE 0

BuiltSlots == 0 .. Len(builder.entries)

----------------------------------------------------------------------------
(* C24 *)

\* C24: a declaration with code >= 0x8000 is a pointer-kind declaration of
\* slot code - 0x8000, one with a code in [0x4000, 0x8000) is a declaration
\* of slot code - 0x4000, one with code < 0x4000 is a function-kind
\* declaration of slot code; the declaration is added to the one catalog
\* entry of that slot (created if absent, with the slot as id), after the
\* declarations the entry already holds, and no other slot changes.
C24_SlotCode ==
    [][Declares =>
        LET id == ClaimedSlot(Read.code)
            after == EntryAfter(id)
        IN  /\ after.def
            /\ after.id = id
            /\ Len(after.definitions) = Before(id, "definitions") + 1
            /\ after.definitions[Len(after.definitions)]
                  = [name |-> Read.name, symbol |-> Read.symbol,
                     file |-> Read.file]
            /\ EntryBefore(id).def
                 => SubSeq(after.definitions, 1, Before(id, "definitions"))
                      = EntryBefore(id).definitions
            /\ Read.code >= PointerCode
                 => /\ Len(after.pointers) = Before(id, "pointers") + 1
                    /\ Len(after.functions) = Before(id, "functions")
            /\ Read.code < AliasCode
                 => /\ Len(after.functions) = Before(id, "functions") + 1
                    /\ Len(after.pointers) = Before(id, "pointers")
            /\ \A other \in (0 .. Len(builder'.entries)) \ {id} :
                  EntryAfter(other) = EntryBefore(other)]_vars

C24_Witness ==
    /\ builder.pc = "scanning"
    /\ builder.last.def
    /\ builder.last.v.code = AliasCode + 1
    /\ ~At(builder.entries, 0).def
    /\ At(builder.entries, 1).def
    /\ Len(At(builder.entries, 1).definitions) = 3
    /\ Len(At(builder.entries, 1).pointers) = 1
    /\ Len(At(builder.entries, 1).functions) = 2

----------------------------------------------------------------------------
(* C25 *)

\* C25: the name and symbol of a catalog entry are those of the first
\* function-kind declaration of its slot: a function-kind declaration of a
\* slot that has none yet names the entry, a declaration of a slot that has
\* one leaves the name and symbol alone, so does a pointer-kind declaration
\* of an existing entry, and so does the end of the build.
C25_CanonicalName ==
    [][ /\ Declares =>
            LET id == ClaimedSlot(Read.code)
                before == EntryBefore(id)
                after == EntryAfter(id)
            IN  /\ (before.def /\ Before(id, "functions") > 0)
                     => (after.name = before.name /\ after.symbol = before.symbol)
                /\ (before.def /\ Read.code >= PointerCode)
                     => (after.name = before.name /\ after.symbol = before.symbol)
                /\ (Read.code < PointerCode /\ Before(id, "functions") = 0)
                     => (after.name = Read.name /\ after.symbol = Read.symbol)
        /\ builder'.pc = "returned" =>
            \A id \in BuiltSlots :
                EntryBefore(id).def =>
                    /\ EntryAfter(id).name = EntryBefore(id).name
                    /\ EntryAfter(id).symbol = EntryBefore(id).symbol ]_vars

C25_Witness ==
    /\ builder.pc = "returned"
    /\ At(builder.entries, 0).def
    /\ Len(At(builder.entries, 0).pointers) = 1
    /\ Len(At(builder.entries, 0).functions) = 2
    /\ At(builder.entries, 0).definitions[1] = At(builder.entries, 0).pointers[1]
    /\ At(builder.entries, 0).functions[1].name
          # At(builder.entries, 0).functions[2].name
    /\ At(builder.entries, 0).pointers[1].name
          # At(builder.entries, 0).functions[1].name
    /\ At(builder.entries, 0).name = At(builder.entries, 0).functions[1].name
    /\ At(builder.entries, 0).symbol = At(builder.entries, 0).functions[1].symbol

----------------------------------------------------------------------------
(* C26 *)

\* C26: in the returned catalog every entry is a Function exactly when its
\* slot has a function-kind declaration, and otherwise a Value when its name
\* has the shape of a getter without arguments and a Pointer when not; no
\* entry is Empty.
C26_KindOfEntry ==
    builder.pc = "returned" =>
        \A id \in BuiltSlots :
            LET entry == At(builder.entries, id)
            IN  entry.def =>
                    /\ entry.type \in {"FUNCTION", "VALUE", "POINTER"}
                    /\ entry.type = "FUNCTION" <=> Len(entry.functions) >= 1
                    /\ Len(entry.functions) = 0 =>
                          entry.type = IF entry.name = "int Foo(void)"
                                       THEN "VALUE" ELSE "POINTER"

C26_Witness ==
    /\ builder.pc = "returned"
    /\ At(builder.entries, 0).def /\ At(builder.entries, 0).type = "VALUE"
    /\ At(builder.entries, 1).def /\ At(builder.entries, 1).type = "POINTER"
    /\ Len(At(builder.entries, 1).pointers) = 2

----------------------------------------------------------------------------
(* C27 *)

\* the directives of a documentation block show on the slot the step declares
DirectiveEffect ==
    LET id == ClaimedSlot(Read.code)
        before == IF EntryBefore(id).def THEN EntryBefore(id)
                  ELSE NewSdkEntry(id, Read.name, Read.symbol)
        after == EntryAfter(id)
    IN  \/ after.platforms # before.platforms
        \/ after.builtin # before.builtin
        \/ after.pointerTo # before.pointerTo

\* the match read before the step is a documentation block of the same file
\* without a group marker, and only white space lies between
BlockJustBefore ==
    /\ builder.last.def
    /\ builder.last.v.doxygen.def
    /\ builder.last.v.file = Read.file
    /\ Read.gap \in {"", "\n"}
    /\ builder.last.v.doxygen.v.marker = ""

\* C27: a declaration record is changed by a documentation block (or
\* rejected for a directive in it) only if that block is the match right
\* before the record, in the same file, with nothing but white space between
\* and without a group marker; after a declaration record no block is
\* pending, so a block is never carried over to a later record.
C27_BlockCorrelation ==
    [][(Scanned /\ ~Read.doxygen.def) =>
        /\ ((builder'.pc = "scanning" /\ DirectiveEffect)
             \/ builder'.pc = "thrown") => BlockJustBefore
        /\ builder'.pc = "scanning" => ~builder'.prevDoxygen.def]_vars

C27_Witness ==
    /\ builder.pc = "scanning"
    /\ builder.matches = 3
    /\ ~builder.last.v.doxygen.def
    /\ ~builder.prevDoxygen.def
    /\ At(builder.entries, 0).def
    /\ At(builder.entries, 0).platforms = Some(<<"ELKA">>)
    /\ ~At(builder.entries, 0).builtin.def
    /\ Len(At(builder.entries, 0).definitions) = 2
    /\ At(builder.entries, 0).definitions[2].file = "swilib/b.h"

----------------------------------------------------------------------------
(* C28 *)

\* C28: every directive of an attached documentation block takes effect on
\* the entry of the declared slot: the platforms listed after @platforms are
\* in platforms, those listed after @builtin are in builtin, and pointerTo is
\* the memory named after @pointer-type.
C28_EveryDirective ==
    [][(Declares /\ BlockJustBefore) =>
        LET value == builder.last.v.doxygen.v
            after == EntryAfter(ClaimedSlot(Read.code))
        IN  /\ value.platforms.def =>
                  /\ after.platforms.def
                  /\ Range(value.platforms.v) \subseteq Range(after.platforms.v)
            /\ value.builtin.def =>
                  /\ after.builtin.def
                  /\ Range(value.builtin.v) \subseteq Range(after.builtin.v)
            /\ value.pointerType.def =>
                  after.pointerTo = value.pointerType.v]_vars

----------------------------------------------------------------------------
(* C29 *)

\* C29: in an analysis result every slot with a patch entry and no Error
\* verdict has a catalog entry; so the catalog entry that getGhidraSymbols
\* and getIdaSymbols read, for every patched slot without an error below the
\* catalog length, is never missing.
C29_EmittersFindEntries ==
    Done =>
        /\ \A id \in TableRange : (HasSwi(id) /\ ~InErrors(id)) => HasSdk(id)
        /\ \A id \in EmitterReads(swilib, sdklib, Result) : HasSdk(id)

C29_Witness ==
    /\ Done
    /\ \E id \in EmitterReads(swilib, sdklib, Result) :
          \E hole \in 0 .. (Len(sdklib.entries) - 1) :
              /\ hole < id
              /\ HasSwi(hole)
              /\ ~HasSdk(hole)
              /\ InErrors(hole)
    /\ \E id \in TableRange :
          id >= Len(sdklib.entries) /\ HasSwi(id) /\ InErrors(id)

----------------------------------------------------------------------------
(* C30 *)

\* the slot carries the pair error that names the slot master
PairErrorNaming(id, master) ==
    /\ InErrors(id)
    /\ ErrorKind(id) = "Address must be equal with"
    /\ Result.errors[id].slot = master

\* the first-listed members of the configured groups that contain the slot
FirstsOf(id) == {config.pairs[k][1] : k \in GroupsOf(id)}

\* C30: a pair error always names the first-listed member of a configured
\* group of the slot, and is given only when that member is patched and the
\* slot is not, or carries another value; so the first-listed member gets no
\* pair error from its own group, and when it has no patch entry no member
\* of the group gets one, whatever the values of the other members.
C30_FirstListedOnly ==
    Done =>
        /\ \A id \in TableRange : \A master \in TableRange :
              PairErrorNaming(id, master) =>
                  /\ master \in FirstsOf(id)
                  /\ HasSwi(master)
                  /\ ~HasSwi(id) \/ SwiAt(id).value # SwiAt(master).value
        /\ \A k \in DOMAIN config.pairs :
              LET first == config.pairs[k][1]
              IN  /\ ~PairErrorNaming(first, first)
                  /\ ~HasSwi(first) =>
                        \A id \in Range(config.pairs[k]) :
                            ~PairErrorNaming(id, first)

C30_Witness ==
    /\ Done
    /\ Len(config.pairs) = 1
    /\ LET g == config.pairs[1]
       IN  /\ HasSdk(g[1]) /\ ~HasSwi(g[1])
           /\ HasSwi(g[2]) /\ HasSwi(g[3])
           /\ SwiAt(g[2]).value # SwiAt(g[3]).value
           /\ ~InErrors(g[1]) /\ ~InErrors(g[2]) /\ ~InErrors(g[3])

====
